---- MODULE Spec2Model ----
(***************************************************************************)
(* Flavor prediction models (analytics/predict.py) and forecast accuracy   *)
(* evaluation (analytics/accuracy.py) of custard-calendar.                 *)
(*                                                                         *)
(* Numbers: pandas/Python floats are modelled as exact rationals <<n, d>>  *)
(* in lowest terms (d > 0).  Dates are whole days counted from EpochDate;  *)
(* flavor titles and store slugs are numbered in their lexical order, so   *)
(* Python's sorted() is ascending numeric order.                           *)
(***************************************************************************)
EXTENDS Integers, Sequences, FiniteSets, TLC

VARIABLES data, model, call, result, data2, model2, result2,
          eval_in, eval_out, queue, todo_file

vars == <<data, model, call, result, data2, model2, result2, eval_in, eval_out,
          queue, todo_file>>

-----------------------------------------------------------------------------
(* Bounds of the explored inputs *)

MaxDay == 4
MaxOtherDay == 0
PairMaxDay == 1
MaxPreds == 6
MaxDocDays == 2
FarDay == 37
WriterMaxDay == 2
MaxTop == 3
MaxForecastDays == 3
BatchMaxRows == 11
MaxItems == 2
TrainMaxRows == 32
MaxTemplatePreds == 4
MaxTemplateOverdue == 2

Titles == {1, 2}
Stores == {1, 2}

-----------------------------------------------------------------------------
(* Exact rational arithmetic standing for float arithmetic *)

RECURSIVE GCD(_, _)
GCD(a, b) == IF b = 0 THEN a ELSE GCD(b, a % b)

Abs(x) == IF x < 0 THEN -x ELSE x

R(n, d) ==
    LET g == GCD(Abs(n), Abs(d))
        s == IF d < 0 THEN -1 ELSE 1
    IN  <<(s * n) \div g, (s * d) \div g>>

Zero == <<0, 1>>
One == <<1, 1>>

RAdd(a, b) == R(a[1] * b[2] + b[1] * a[2], a[2] * b[2])
RMul(a, b) == R(a[1] * b[1], a[2] * b[2])
RDiv(a, b) == R(a[1] * b[2], a[2] * b[1])
RLe(a, b) == a[1] * b[2] <= b[1] * a[2]
RLt(a, b) == a[1] * b[2] < b[1] * a[2]
RMin(a, b) == IF RLe(a, b) THEN a ELSE b
RMax(a, b) == IF RLe(a, b) THEN b ELSE a

RECURSIVE RSum(_)
RSum(s) == IF s = <<>> THEN Zero ELSE RAdd(s[1], RSum(Tail(s)))

-----------------------------------------------------------------------------
(* Calendar: pandas dt.dayofweek / dt.month of the date EpochDate + d      *)
(* (EpochDate = 2025-01-29, a Wednesday; 2025..2027 are not leap years)    *)

EpochDow == 2
EpochDayOfYear == 28
CumDays == <<0, 31, 59, 90, 120, 151, 181, 212, 243, 273, 304, 334, 365>>

dayofweek(d) == (d + EpochDow) % 7

month(d) ==
    LET doy == (d + EpochDayOfYear) % 365
    IN  CHOOSE m \in 1..12 : CumDays[m] <= doy /\ doy < CumDays[m + 1]

-----------------------------------------------------------------------------
(* DataFrame helpers.  A history DataFrame is a set of rows                *)
(* [store_slug, flavor_date, title], unique per (store_slug, flavor_date). *)

RECURSIVE sorted(_)
sorted(S) ==
    IF S = {} THEN <<>>
    ELSE LET m == CHOOSE x \in S : \A y \in S : x <= y
         IN  <<m>> \o sorted(S \ {m})

SetMax(S) == CHOOSE x \in S : \A y \in S : y <= x
SetMin(S) == CHOOSE x \in S : \A y \in S : x <= y

unique_titles(df) == {e.title : e \in df}

(* Series.value_counts() of the title column: title -> count *)
value_counts(df) ==
    [t \in unique_titles(df) |-> Cardinality({e \in df : e.title = t})]

(* Series.reindex(all_flavors, fill_value=0.0): values in index order *)
reindex(f, all_flavors) ==
    [i \in 1..Len(all_flavors) |->
        IF all_flavors[i] \in DOMAIN f THEN f[all_flavors[i]] ELSE Zero]

Sum(f) ==
    LET RECURSIVE go(_)
        go(S) == IF S = {} THEN 0
                 ELSE LET x == CHOOSE y \in S : TRUE IN f[x] + go(S \ {x})
    IN  go(DOMAIN f)

(* A pandas Series: labels and values in index order *)
Series(index, values) ==
    [kind |-> "series", error |-> "", index |-> index, values |-> values]

Raise(error) ==
    [kind |-> "raise", error |-> error, index |-> <<>>, values |-> <<>>]

NoResult == [kind |-> "none", error |-> "", index |-> <<>>, values |-> <<>>]

historical_rows_same_day(df, store_slug, date) ==
    {e \in df : e.store_slug = store_slug /\ e.flavor_date <= date}

(* df[(df["store_slug"] == store_slug) & (df["flavor_date"] < date)] *)
historical_rows(df, store_slug, date) ==
    {e \in df : e.store_slug = store_slug /\ e.flavor_date < date}

-----------------------------------------------------------------------------
(* Model 1: FrequencyRecencyModel *)

MIN_BONUS_APPEARANCES == 5

FrequencyRecencyModel(fw, rw, dw, sw) ==
    [kind |-> "FrequencyRecency",
     weights |-> <<fw, rw, dw, sw>>,
     has_df |-> FALSE, df |-> {}, all_flavors |-> <<>>,
     has_tm |-> FALSE, tm |-> <<>>, trained |-> FALSE]

DefaultFrequencyRecencyModel ==
    FrequencyRecencyModel(<<3, 5>>, <<1, 5>>, <<1, 10>>, <<1, 10>>)

FrequencyRecency_fit_keeps_vocabulary(self, df) ==
    [self EXCEPT !.has_df = TRUE, !.df = df,
                 !.all_flavors = IF self.has_df THEN self.all_flavors
                                 ELSE sorted(unique_titles(df))]

FrequencyRecency_fit(self, df) ==
    [self EXCEPT !.has_df = TRUE, !.df = df,
                 !.all_flavors = sorted(unique_titles(df))]

_compute_dow_bonus_any_day(df_store, target_dow) ==
    LET counts == value_counts(df_store)
        eligible == {t \in DOMAIN counts : counts[t] >= MIN_BONUS_APPEARANCES}
        dow_counts == [t \in eligible |-> counts[t]]
        total == Sum(dow_counts)
    IN  IF eligible = {} THEN <<>>
        ELSE IF total = 0 THEN <<>>
        ELSE [t \in eligible |-> R(dow_counts[t], total)]

_compute_dow_bonus_all_eligible(df_store, target_dow) ==
    LET counts == value_counts(df_store)
        dow_counts == [t \in DOMAIN counts |->
            Cardinality({e \in df_store :
                e.title = t /\ dayofweek(e.flavor_date) = target_dow})]
        total == Sum(dow_counts)
    IN  IF total = 0 THEN <<>>
        ELSE [t \in DOMAIN counts |-> R(dow_counts[t], total)]

_compute_dow_bonus(df_store, target_dow) ==
    LET counts == value_counts(df_store)
        eligible == {t \in DOMAIN counts : counts[t] >= MIN_BONUS_APPEARANCES}
        dow_counts == [t \in eligible |->
            Cardinality({e \in df_store :
                e.title = t /\ dayofweek(e.flavor_date) = target_dow})]
        total == Sum(dow_counts)
    IN  IF eligible = {} THEN <<>>
        ELSE IF total = 0 THEN <<>>
        ELSE [t \in eligible |-> R(dow_counts[t], total)]

months_in_window(target_month) ==
    {((target_month - 2) % 12) + 1, ((target_month - 1) % 12) + 1, target_month}

_compute_seasonal_bonus(df_store, target_month) ==
    LET counts == value_counts(df_store)
        eligible == {t \in DOMAIN counts : counts[t] >= MIN_BONUS_APPEARANCES}
        seasonal_counts == [t \in eligible |->
            Cardinality({e \in df_store :
                e.title = t /\ month(e.flavor_date) \in months_in_window(target_month)})]
        total == Sum(seasonal_counts)
    IN  IF eligible = {} THEN <<>>
        ELSE IF total = 0 THEN <<>>
        ELSE [t \in eligible |-> R(seasonal_counts[t], total)]

(* freq / freq.sum() *)
freq_probs(historical) ==
    LET freq == value_counts(historical)
    IN  [t \in DOMAIN freq |-> R(freq[t], Sum(freq))]

(* Recency component of FrequencyRecencyModel.predict_proba *)
overdue_ratio(historical, date) ==
    LET store_dates == {e.flavor_date : e \in historical}
        span == SetMax(store_dates) - SetMin(store_dates)
        total_span == IF span <= 0 THEN 1 ELSE span
        counts == value_counts(historical)
        last_seen == [t \in DOMAIN counts |->
            SetMax({e.flavor_date : e \in {x \in historical : x.title = t}})]
        days_since == [t \in DOMAIN counts |-> date - last_seen[t]]
        clip2(c) == IF c < 2 THEN 2 ELSE c
        expected == [t \in DOMAIN counts |->
            RMax(R(total_span, clip2(counts[t]) - 1), <<7, 1>>)]
    IN  [t \in DOMAIN counts |->
            RDiv(RMin(RDiv(<<days_since[t], 1>>, expected[t]), <<3, 1>>), <<3, 1>>)]

normalize_skipped(values) == values

(* scores / total when total > 0 *)
normalize(values) ==
    LET total == RSum(values)
    IN  IF RLt(Zero, total)
        THEN [i \in DOMAIN values |-> RDiv(values[i], total)]
        ELSE values

FrequencyRecency_predict_proba(self, store_slug, date) ==
    IF ~self.has_df THEN Raise("TypeError")
    ELSE
    LET historical == historical_rows(self.df, store_slug, date)
        n == Len(self.all_flavors)
    IN  IF historical = {}
        THEN IF n = 0 THEN Raise("ZeroDivisionError")
             ELSE Series(self.all_flavors, [i \in 1..n |-> R(1, n)])
        ELSE
        LET fp == reindex(freq_probs(historical), self.all_flavors)
            od == reindex(overdue_ratio(historical, date), self.all_flavors)
            dow_bonus == reindex(_compute_dow_bonus(historical, dayofweek(date)),
                                 self.all_flavors)
            seasonal_bonus == reindex(_compute_seasonal_bonus(historical, month(date)),
                                      self.all_flavors)
            scores == [i \in 1..n |->
                RAdd(RAdd(RMul(self.weights[1], fp[i]),
                          RMul(self.weights[2], od[i])),
                     RAdd(RMul(self.weights[3], dow_bonus[i]),
                          RMul(self.weights[4], seasonal_bonus[i])))]
        IN  Series(self.all_flavors, normalize(scores))

-----------------------------------------------------------------------------
(* analytics.basic_metrics.flavor_probability(df): global unconditional    *)
(* flavor frequency, count / number of rows                                *)

flavor_probability(df) ==
    LET counts == value_counts(df)
    IN  [t \in DOMAIN counts |-> R(counts[t], Cardinality(df))]

(* analytics.markov.transition_matrix(df): one global first-order matrix   *)
(* over all stores' consecutive-day pairs; row prev -> P(next | prev),     *)
(* indexed by the titles that have at least one successor                  *)

transition_matrix(df) ==
    LET pairs == {p \in df \X df :
                    /\ p[1].store_slug = p[2].store_slug
                    /\ p[2].flavor_date = p[1].flavor_date + 1}
        index == {p[1].title : p \in pairs}
        n(a, b) == Cardinality({p \in pairs : p[1].title = a /\ p[2].title = b})
        row(a) == Cardinality({p \in pairs : p[1].title = a})
    IN  [a \in index |->
            [b \in {p[2].title : p \in {q \in pairs : q[1].title = a}} |->
                R(n(a, b), row(a))]]

-----------------------------------------------------------------------------
(* Model 2: MarkovRecencyModel *)

MarkovRecencyModel(mw, rw) ==
    [kind |-> "MarkovRecency",
     weights |-> <<mw, rw>>,
     has_df |-> FALSE, df |-> {}, all_flavors |-> <<>>,
     has_tm |-> FALSE, tm |-> <<>>, trained |-> FALSE]

DefaultMarkovRecencyModel == MarkovRecencyModel(<<3, 5>>, <<2, 5>>)

MarkovRecency_fit(self, df) ==
    [self EXCEPT !.has_df = TRUE, !.df = df,
                 !.all_flavors = sorted(unique_titles(df)),
                 !.has_tm = TRUE, !.tm = transition_matrix(df)]

(* Markov component: row of yesterday's flavor, else global frequency *)
markov_probs(self, historical, date) ==
    LET yesterday == date - 1
        yesterday_row == {e \in historical : e.flavor_date = yesterday}
        yesterday_flavor == (CHOOSE e \in yesterday_row : TRUE).title
    IN  IF yesterday_row # {} /\ yesterday_flavor \in DOMAIN self.tm
        THEN reindex(self.tm[yesterday_flavor], self.all_flavors)
        ELSE reindex(flavor_probability(self.df), self.all_flavors)

(* Recency component of MarkovRecencyModel.predict_proba *)
recency_scores(self, historical, date) ==
    IF historical # {}
    THEN LET store_dates == {e.flavor_date : e \in historical}
             span == SetMax(store_dates) - SetMin(store_dates)
             total_span == IF span > 1 THEN span ELSE 1
             counts == value_counts(historical)
             last_seen == [t \in DOMAIN counts |->
                 SetMax({e.flavor_date : e \in {x \in historical : x.title = t}})]
             days_since == [t \in DOMAIN counts |-> date - last_seen[t]]
             clip2(c) == IF c < 2 THEN 2 ELSE c
             expected == [t \in DOMAIN counts |->
                 RMax(R(total_span, clip2(counts[t]) - 1), <<7, 1>>)]
             scores == [t \in DOMAIN counts |->
                 RDiv(RMin(RDiv(<<days_since[t], 1>>, expected[t]), <<3, 1>>),
                      <<3, 1>>)]
         IN  reindex(scores, self.all_flavors)
    ELSE [i \in 1..Len(self.all_flavors) |-> Zero]

MarkovRecency_predict_proba(self, store_slug, date) ==
    IF ~self.has_df THEN Raise("TypeError")
    ELSE
    LET historical == historical_rows(self.df, store_slug, date)
        mp == markov_probs(self, historical, date)
        rs == recency_scores(self, historical, date)
        scores == [i \in 1..Len(self.all_flavors) |->
            RAdd(RMul(self.weights[1], mp[i]), RMul(self.weights[2], rs[i]))]
    IN  Series(self.all_flavors, normalize(scores))

-----------------------------------------------------------------------------
(* Model 3: XGBoostFlavorModel.  The sklearn classifier is opaque: only    *)
(* whether self.model was set is tracked (field trained).                  *)

WARMUP_OBSERVATIONS == 30

XGBoostFlavorModel ==
    [kind |-> "XGBoost",
     weights |-> <<>>,
     has_df |-> FALSE, df |-> {}, all_flavors |-> <<>>,
     has_tm |-> FALSE, tm |-> <<>>, trained |-> FALSE]

(* rows of fit's training matrix: every observation of a store after its   *)
(* first WARMUP_OBSERVATIONS in date order                                 *)
training_rows(df) ==
    {e \in df :
        Cardinality({x \in df : x.store_slug = e.store_slug
                                /\ x.flavor_date < e.flavor_date})
            >= WARMUP_OBSERVATIONS}

(* GradientBoostingClassifier.fit raises on an empty training matrix, and  *)
(* then self.model stays None                                              *)
XGBoost_fit(self, df) ==
    [self EXCEPT !.has_df = TRUE, !.df = df,
                 !.all_flavors = sorted(unique_titles(df)),
                 !.trained = (training_rows(df) # {})]

XGBoost_predict_proba_default(self, store_slug, date) ==
    Series(self.all_flavors, [i \in 1..Len(self.all_flavors) |-> Zero])

XGBoost_predict_proba(self, store_slug, date) ==
    IF ~self.has_df THEN Raise("TypeError")
    ELSE IF ~self.trained THEN Raise("AttributeError")
    ELSE [kind |-> "classifier", error |-> "",
          index |-> self.all_flavors, values |-> <<>>]

-----------------------------------------------------------------------------
(* The explored histories and queries *)

Row(store_slug, flavor_date, title) ==
    [store_slug |-> store_slug, flavor_date |-> flavor_date, title |-> title]

(* the rows of one store: none, or one row a day over a run of days        *)
StoreRuns(store_slug, last_day) ==
    {{}} \cup UNION {
        {{Row(store_slug, d, f[d]) : d \in a..b} : f \in [a..b -> Titles]} :
            a \in 0..last_day, b \in 0..last_day}

(* the first store holds up to MaxDay + 1 days, the other MaxOtherDay + 1 *)
LastDay(store_slug) ==
    IF store_slug = SetMin(Stores) THEN MaxDay ELSE MaxOtherDay

Histories ==
    {r1 \cup r2 : r1 \in StoreRuns(SetMin(Stores), LastDay(SetMin(Stores))),
                  r2 \in StoreRuns(SetMax(Stores), LastDay(SetMax(Stores)))}

(* between two fits of one instance the feed is unchanged, or one store's  *)
(* run loses its first or last row or gains a row at either end            *)
Refits(df) ==
    {df} \cup UNION {
        LET dates == {e.flavor_date : e \in {x \in df : x.store_slug = s}}
            ends == IF dates = {} THEN {} ELSE {SetMin(dates), SetMax(dates)}
            free == IF dates = {} THEN 0..LastDay(s)
                    ELSE {SetMin(dates) - 1, SetMax(dates) + 1} \cap (0..LastDay(s))
        IN  {{e \in df : ~(e.store_slug = s /\ e.flavor_date = d)} : d \in ends}
            \cup {df \cup {Row(s, d, t)} : d \in free, t \in Titles}
        : s \in Stores}

QueryStores == Stores
QueryDates == {1, MaxDay + 1, FarDay}

-----------------------------------------------------------------------------
(* Dispatch on the concrete model class *)

fit(self, df) ==
    CASE self.kind = "FrequencyRecency" -> FrequencyRecency_fit(self, df)
      [] self.kind = "MarkovRecency" -> MarkovRecency_fit(self, df)
      [] self.kind = "XGBoost" -> XGBoost_fit(self, df)

predict_proba(self, store_slug, date) ==
    CASE self.kind = "FrequencyRecency" ->
            FrequencyRecency_predict_proba(self, store_slug, date)
      [] self.kind = "MarkovRecency" ->
            MarkovRecency_predict_proba(self, store_slug, date)
      [] self.kind = "XGBoost" -> XGBoost_predict_proba(self, store_slug, date)

predict_proba_self_narrowed(self, store_slug, date) ==
    [self EXCEPT !.df = historical_rows(self.df, store_slug, date)]

(* the instance after predict_proba returned: no field is assigned *)
predict_proba_self(self, store_slug, date) == self

NoCall == [op |-> "none", store_slug |-> 0, date |-> 0]

(* the second instance takes part only in the two-instance specification, *)
(* the evaluator's input and output only in the evaluator's                *)
second == <<data2, model2, result2>>
evaluator == <<eval_in, eval_out>>

(* the feedback queue and the TODO file take part only in the feedback   *)
(* queue's specification                                                  *)
feedback == <<queue, todo_file>>

NoQueue == [items |-> <<>>]
NoFile == <<>>

Idle == [op |-> "idle"]

Init ==
    /\ model \in {DefaultFrequencyRecencyModel, DefaultMarkovRecencyModel,
                  XGBoostFlavorModel}
    /\ data = {}
    /\ call = NoCall
    /\ result = NoResult
    /\ data2 = {} /\ model2 = model /\ result2 = NoResult
    /\ eval_in = Idle /\ eval_out = Idle
    /\ queue = NoQueue /\ todo_file = NoFile

Fit(df) ==
    /\ model' = fit(model, df)
    /\ data' = df
    /\ call' = [op |-> "fit", store_slug |-> 0, date |-> 0]
    /\ result' = NoResult
    /\ UNCHANGED <<second, evaluator, feedback>>

PredictProba(store_slug, date) ==
    /\ result' = predict_proba(model, store_slug, date)
    /\ model' = predict_proba_self(model, store_slug, date)
    /\ call' = [op |-> "predict_proba", store_slug |-> store_slug, date |-> date]
    /\ UNCHANGED <<data, second, evaluator, feedback>>

Next ==
    \/ \E df \in (IF model.has_df THEN Refits(model.df) ELSE Histories) : Fit(df)
    \/ \E s \in QueryStores, d \in QueryDates : PredictProba(s, d)

Spec == Init /\ [][Next]_vars

(* the same calls on models constructed with other weights                 *)
(* (specification SpecWeights): every weight 0, and only the two bonus     *)
(* weights above 0                                                         *)
WeightedModels ==
    {FrequencyRecencyModel(Zero, Zero, Zero, Zero),
     FrequencyRecencyModel(Zero, Zero, <<1, 10>>, <<1, 10>>),
     MarkovRecencyModel(Zero, Zero)}

InitWeights ==
    /\ model \in WeightedModels
    /\ data = {}
    /\ call = NoCall
    /\ result = NoResult
    /\ data2 = {} /\ model2 = model /\ result2 = NoResult
    /\ eval_in = Idle /\ eval_out = Idle
    /\ queue = NoQueue /\ todo_file = NoFile

SpecWeights == InitWeights /\ [][Next]_vars

-----------------------------------------------------------------------------
(* Properties of predict_proba on one instance (specification Spec) *)

Predicted == call.op = "predict_proba"

DefaultWeights ==
    \/ model.kind = "FrequencyRecency"
       /\ model.weights = DefaultFrequencyRecencyModel.weights
    \/ model.kind = "MarkovRecency"
       /\ model.weights = DefaultMarkovRecencyModel.weights

(* the rows of the queried store dated strictly before the query date *)
Qualifying == {e \in data : e.store_slug = call.store_slug
                            /\ e.flavor_date < call.date}

Uniform(n) == [i \in 1..n |-> <<1, n>>]

(* C1: a FrequencyRecencyModel or MarkovRecencyModel with default weights, *)
(* fitted on a non-empty history, returns for every store and date         *)
(* probabilities that sum to 1 over the whole vocabulary.                  *)
C1_SumsToOne ==
    (Predicted /\ DefaultWeights /\ model.has_df /\ data # {}) =>
        /\ result.kind = "series"
        /\ RSum(result.values) = One

C1_Witness ==
    /\ Predicted /\ model.kind = "FrequencyRecency" /\ model.has_df
    /\ _compute_dow_bonus(Qualifying, dayofweek(call.date)) # <<>>
    /\ Len(result.values) = 2
    /\ RSum(result.values) = One

(* C2: every returned probability is >= 0 and the returned labels are      *)
(* exactly the sorted distinct titles of the history of the most recent    *)
(* fit, each once, also those never served at the queried store.           *)
C2_LabelsAreVocabulary ==
    (Predicted /\ result.kind = "series") =>
        /\ \A i \in DOMAIN result.values : RLe(Zero, result.values[i])
        /\ Len(result.values) = Len(result.index)
        /\ {result.index[i] : i \in DOMAIN result.index} = {e.title : e \in data}
        /\ \A i, j \in DOMAIN result.index :
              i < j => result.index[i] < result.index[j]

C2_Witness ==
    /\ Predicted /\ result.kind = "series" /\ Qualifying # {}
    /\ \E i \in DOMAIN result.index :
          /\ \A e \in Qualifying : e.title # result.index[i]
          /\ \A e \in data : e.title = result.index[i] =>
                e.store_slug # call.store_slug

(* C5: a fitted FrequencyRecencyModel with non-empty vocabulary V returns  *)
(* exactly 1/|V| for every flavor, without raising, when the queried store *)
(* has no row dated strictly before the query date.                        *)
C5_UniformWithoutHistory ==
    (Predicted /\ model.kind = "FrequencyRecency" /\ model.has_df
       /\ data # {} /\ Qualifying = {}) =>
        /\ result.kind = "series"
        /\ result.values = Uniform(Cardinality({e.title : e \in data}))

C5_Witness ==
    /\ Predicted /\ model.kind = "FrequencyRecency" /\ model.has_df
    /\ Qualifying = {}
    /\ \E e \in data : e.store_slug = call.store_slug
    /\ result.kind = "series" /\ Len(result.values) = 2

(* C6: a fitted MarkovRecencyModel returns the uniform distribution 1/|V|  *)
(* when the queried store has no row dated strictly before the query date. *)
C6_MarkovUniformWithoutHistory ==
    (Predicted /\ model.kind = "MarkovRecency" /\ model.has_df
       /\ data # {} /\ Qualifying = {}) =>
        /\ result.kind = "series"
        /\ result.values = Uniform(Cardinality({e.title : e \in data}))

(* C7: predict_proba on an instance of any of the three models on which    *)
(* fit has not completed raises; it returns no distribution.               *)
FitCompleted ==
    IF model.kind = "XGBoost" THEN model.trained ELSE model.has_df

C7_RaisesBeforeFit ==
    (Predicted /\ ~FitCompleted) => result.kind = "raise"

C7_Witness ==
    Predicted /\ model.kind = "XGBoost" /\ ~FitCompleted /\ result.kind = "raise"

(* C8: predict_proba leaves the fitted state of the instance unchanged,    *)
(* and every call returns what the call returns on the state fit left.     *)
C8_PredictIsPure ==
    [][(call'.op = "predict_proba" /\ model.has_df) =>
          /\ model' = model
          /\ model' = fit(model, data)
          /\ result' = predict_proba(fit(model, data), call'.store_slug, call'.date)
      ]_vars

C8_Witness ==
    /\ Predicted /\ model.has_df /\ result.kind = "series"
    /\ model = fit(model, data) /\ Len(result.values) = 2

(* C20: a FrequencyRecencyModel fitted on an empty history (no events, an  *)
(* empty vocabulary) does not raise in predict_proba, for any store and    *)
(* date: it returns a fallback distribution.                               *)
C20_EmptyHistoryDoesNotRaise ==
    (Predicted /\ model.kind = "FrequencyRecency" /\ model.has_df /\ data = {}) =>
        result.kind = "series"

-----------------------------------------------------------------------------
(* Two instances of one model class, each fitted once, on two histories,   *)
(* and then asked one and the same question (specification SpecPair)       *)

PairSlots == Stores \X (0..PairMaxDay)

PairHistories ==
    {{Row(sl[1], sl[2], f[sl]) : sl \in {x \in PairSlots : f[x] # 0}} :
        f \in [PairSlots -> Titles \cup {0}]}

(* the second history: the first with the row of one (store, day) added,   *)
(* removed or retitled, the vocabulary staying the same                    *)
Edits(h) ==
    {h2 \in UNION {
        LET rest == {e \in h : <<e.store_slug, e.flavor_date>> # sl}
        IN  {rest} \cup {rest \cup {Row(sl[1], sl[2], t)} : t \in Titles}
        : sl \in PairSlots} :
        h2 # h /\ unique_titles(h2) = unique_titles(h)}

PairQueryDates == 1..(PairMaxDay + 1)

InitPair ==
    /\ model \in {DefaultFrequencyRecencyModel, DefaultMarkovRecencyModel}
    /\ model2 = model
    /\ data = {} /\ data2 = {}
    /\ call = NoCall
    /\ result = NoResult /\ result2 = NoResult
    /\ eval_in = Idle /\ eval_out = Idle
    /\ queue = NoQueue /\ todo_file = NoFile

FitPair(df, df2) ==
    /\ model' = fit(model, df) /\ data' = df
    /\ model2' = fit(model2, df2) /\ data2' = df2
    /\ call' = [op |-> "fit", store_slug |-> 0, date |-> 0]
    /\ result' = NoResult /\ result2' = NoResult
    /\ UNCHANGED <<evaluator, feedback>>

PredictPair(store_slug, date) ==
    /\ result' = predict_proba(model, store_slug, date)
    /\ result2' = predict_proba(model2, store_slug, date)
    /\ model' = predict_proba_self(model, store_slug, date)
    /\ model2' = predict_proba_self(model2, store_slug, date)
    /\ call' = [op |-> "predict_proba", store_slug |-> store_slug, date |-> date]
    /\ UNCHANGED <<data, data2, evaluator, feedback>>

NextPair ==
    \/ /\ ~model.has_df
       /\ \E df \in PairHistories : \E df2 \in Edits(df) : FitPair(df, df2)
    \/ /\ call.op = "fit"
       /\ \E s \in Stores, d \in PairQueryDates : PredictPair(s, d)

SpecPair == InitPair /\ [][NextPair]_vars

Before(df, date) == {e \in df : e.flavor_date < date}

SameVocabulary == unique_titles(data) = unique_titles(data2)

(* C3: FrequencyRecencyModel.predict_proba(store, date) depends only on    *)
(* the vocabulary and on that store's rows dated strictly before date:     *)
(* histories equal in both give identical distributions, whatever they     *)
(* hold on or after date or for other stores.                              *)
C3_NoLeakFrequencyRecency ==
    (/\ Predicted /\ model.kind = "FrequencyRecency" /\ model.has_df
     /\ SameVocabulary
     /\ Qualifying = {e \in data2 : e.store_slug = call.store_slug
                                    /\ e.flavor_date < call.date})
    => result = result2

C3_Witness ==
    /\ Predicted /\ model.kind = "FrequencyRecency" /\ model.has_df
    /\ SameVocabulary
    /\ Qualifying # {}
    /\ Qualifying = {e \in data2 : e.store_slug = call.store_slug
                                   /\ e.flavor_date < call.date}
    /\ \E e \in data2 \ data : e.store_slug = call.store_slug
                               /\ e.flavor_date >= call.date
    /\ result.kind = "series" /\ result = result2

(* C4: MarkovRecencyModel.predict_proba(store, date) uses no row dated on  *)
(* or after date: histories with the same vocabulary that agree on every   *)
(* row dated strictly before date give identical distributions.            *)
C4_NoLeakMarkovRecency ==
    (/\ Predicted /\ model.kind = "MarkovRecency" /\ model.has_df
     /\ SameVocabulary
     /\ Before(data, call.date) = Before(data2, call.date))
    => result = result2

-----------------------------------------------------------------------------
(* Forecast accuracy evaluation (analytics/accuracy.py).                   *)
(* A Python str is a sequence of one-character strings; None is <<>> and   *)
(* any other optional value x is <<x>> (also for a dict key that may be    *)
(* absent).  A probability is a decimal m * 10^-e; -log(x) is kept as the  *)
(* term [neg_ln |-> x].  A date string "YYYY-MM-DD" is the day number, ""  *)
(* is 0: str comparison of ISO dates is the order of the days.             *)

None == <<>>
Some(x) == <<x>>
get(opt, default) == IF opt = None THEN default ELSE opt[1]

Dec(m, e) == [m |-> m, e |-> e]

RECURSIVE Pow10(_)
Pow10(k) == IF k = 0 THEN 1 ELSE 10 * Pow10(k - 1)

(* a <= b for decimals with mantissas below 10^6 *)
DecLe(a, b) ==
    IF b.e >= a.e
    THEN IF a.m = 0 THEN TRUE
         ELSE IF b.e - a.e > 6 THEN FALSE
         ELSE a.m * Pow10(b.e - a.e) <= b.m
    ELSE IF b.m = 0 THEN a.m <= 0
         ELSE IF a.e - b.e > 6 THEN TRUE
         ELSE a.m <= b.m * Pow10(a.e - b.e)

(* round(x, digits) of a non-negative value: the nearest multiple of       *)
(* 10^-digits, a tie going to the even one; the result in those units      *)
round_units(x, digits) ==
    LET scaled == x[1] * Pow10(digits)
        q == scaled \div x[2]
        twice == 2 * (scaled % x[2])
    IN  IF twice < x[2] THEN q
        ELSE IF twice > x[2] THEN q + 1
        ELSE IF q % 2 = 0 THEN q ELSE q + 1

(* max(p, 1e-15) *)
LOG_LOSS_FLOOR == Dec(1, 15)
max_floor(p) == IF DecLe(LOG_LOSS_FLOOR, p) THEN p ELSE LOG_LOSS_FLOOR

neg_log(x) == [neg_ln |-> x]

isspace(c) == c \in {" ", "\n", "\t"}

RECURSIVE lstrip(_)
lstrip(s) == IF s # <<>> /\ isspace(s[1]) THEN lstrip(Tail(s)) ELSE s

RECURSIVE rstrip(_)
rstrip(s) ==
    IF s # <<>> /\ isspace(s[Len(s)]) THEN rstrip(SubSeq(s, 1, Len(s) - 1)) ELSE s

strip(s) == rstrip(lstrip(s))

lower_char(c) ==
    CASE c = "T" -> "t" [] c = "M" -> "m" [] c = "V" -> "v" [] OTHER -> c

lower(s) == [i \in DOMAIN s |-> lower_char(s[i])]

normalize_for_match(flavor) == lower(strip(flavor))

first_match_last(predictions, actual_norm, i) ==
    LET hits == {k \in i..Len(predictions) :
                    normalize_for_match(predictions[k].flavor) = actual_norm}
    IN  IF hits = {} THEN None ELSE Some(SetMax(hits))

(* for i, pred in enumerate(predictions): first match, rank = i + 1 *)
RECURSIVE first_match(_, _, _)
first_match(predictions, actual_norm, i) ==
    IF i > Len(predictions) THEN None
    ELSE IF normalize_for_match(predictions[i].flavor) = actual_norm THEN Some(i)
    ELSE first_match(predictions, actual_norm, i + 1)

evaluate_forecast_day(predictions, actual_flavor) ==
    LET actual_norm == normalize_for_match(actual_flavor)
        rank == first_match(predictions, actual_norm, 1)
        top_1_hit == rank = Some(1)
        top_5_hit == rank # None /\ rank[1] <= 5
        log_loss ==
            IF rank # None
            THEN LET p == get(predictions[rank[1]].probability, Dec(0, 0))
                 IN  Some(neg_log(max_floor(p)))
            ELSE None
    IN  [top_1_hit |-> top_1_hit, top_5_hit |-> top_5_hit,
         rank |-> rank, log_loss |-> log_loss]

NoDate == 0

(* a key that is present and holds JSON null: json.loads gives None *)
JsonNull == <<[null |-> TRUE]>>

(* not x, for a list or None *)
falsy(x) == x = <<>> \/ x = JsonNull

Raised(error) == [raised |-> error]

(* forecast_data.get("days") *)
days_of_no_default(forecast_data) ==
    IF forecast_data.days = None THEN JsonNull ELSE forecast_data.days[1]

(* forecast_data.get("days", []) *)
days_of(forecast_data) == get(forecast_data.days, <<>>)

(* the loop over days: the evaluated days, in order *)
RECURSIVE evaluate_days(_, _, _)
evaluate_days(days, actuals, cutoff) ==
    IF days = <<>> THEN <<>>
    ELSE LET day == days[1]
             date == get(day.date, NoDate)
             predictions == get(day.predictions, <<>>)
             rest == evaluate_days(Tail(days), actuals, cutoff)
         IN  IF date < cutoff THEN rest
             ELSE IF date \notin DOMAIN actuals THEN rest
             ELSE IF falsy(predictions) THEN rest
             ELSE <<[date |-> date,
                     day |-> evaluate_forecast_day(predictions, actuals[date])]>>
                  \o rest

count_if(details, key) == Cardinality({i \in DOMAIN details : details[i].day[key]})

log_losses_zero_filled(details) ==
    [i \in DOMAIN details |->
        IF details[i].day.log_loss # None THEN details[i].day.log_loss[1]
        ELSE neg_log(Dec(1, 0))]

(* [d["log_loss"] for d in details if d["log_loss"] is not None] *)
RECURSIVE log_losses_of(_)
log_losses_of(details) ==
    IF details = <<>> THEN <<>>
    ELSE (IF details[1].day.log_loss # None
          THEN <<details[1].day.log_loss[1]>> ELSE <<>>)
         \o log_losses_of(Tail(details))

(* sum(log_losses) / len(log_losses) if log_losses else None *)
average(log_losses) ==
    IF log_losses # <<>>
    THEN Some([sum |-> log_losses, over |-> Len(log_losses)])
    ELSE None

evaluate_store_forecasts(forecast_data, actuals, window_days, now) ==
    LET cutoff == now - window_days
        listed == days_of(forecast_data)
        preds == get(forecast_data.predictions, <<>>)
        date == get(forecast_data.target_date, NoDate)
        days == IF falsy(listed) /\ ~falsy(preds) /\ date # NoDate
                THEN <<[date |-> Some(date), predictions |-> Some(preds)]>>
                ELSE listed
    IN  IF days = JsonNull
        THEN Raised("TypeError")
        ELSE
        LET details == evaluate_days(days, actuals, cutoff)
            n == Len(details)
            top_1_hits == count_if(details, "top_1_hit")
            top_5_hits == count_if(details, "top_5_hit")
        IN  IF n = 0
            THEN [top_1_hit_rate |-> Zero, top_5_hit_rate |-> Zero,
                  avg_log_loss |-> None, n_samples |-> 0, details |-> <<>>]
            ELSE [top_1_hit_rate |-> R(top_1_hits, n),
                  top_5_hit_rate |-> R(top_5_hits, n),
                  avg_log_loss |-> average(log_losses_of(details)),
                  n_samples |-> n, details |-> details]

-----------------------------------------------------------------------------
(* generate_accuracy_report (accuracy.py): the report is the sequence of   *)
(* its lines, each line the sequence of its characters                     *)

DigitChars == <<"0", "1", "2", "3", "4", "5", "6", "7", "8", "9">>

(* str(n) of a non-negative int *)
RECURSIVE str_int(_)
str_int(n) ==
    IF n < 10 THEN <<DigitChars[n + 1]>>
    ELSE str_int(n \div 10) \o <<DigitChars[(n % 10) + 1]>>

spaces(n) == [i \in 1..n |-> " "]

(* the text of a store slug *)
SlugText(store_slug) ==
    IF store_slug = SetMin(Stores) THEN <<"m", "t", "-", "h">> ELSE <<"v">>

(* f"{s:<width}" and the mirrored f"{s:>width}" *)
ljust(s, width) == s \o spaces(width - Len(s))
rjust(s, width) == spaces(width - Len(s)) \o s

(* the digits of `units` with `digits` of them after the point *)
RECURSIVE zero_padded(_, _)
zero_padded(s, width) == IF Len(s) >= width THEN s ELSE zero_padded(<<"0">> \o s, width)

fixed_point(units, digits) ==
    str_int(units \div Pow10(digits)) \o <<".">>
        \o zero_padded(str_int(units % Pow10(digits)), digits)

(* f"{x:.1%}" of a rate *)
format_percent_1(rate) ==
    fixed_point(round_units(RMul(rate, R(100, 1)), 1), 1) \o <<"%">>

(* f"{x:.3f}" of a decimal *)
format_3f(x) == fixed_point(round_units(R(x.m, Pow10(x.e)), 3), 3)

Dashes == <<"-", "-">>

join_cells(cells) ==
    cells[1] \o <<" ">> \o cells[2] \o <<" ">> \o cells[3] \o <<" ">> \o cells[4]
        \o <<" ">> \o cells[5]

SLUG_WIDTH == 30
RATE_WIDTH == 7
LOSS_WIDTH == 8
COUNT_WIDTH == 5

report_header ==
    join_cells(<<ljust(<<"S", "t", "o", "r", "e">>, SLUG_WIDTH),
                 rjust(<<"T", "o", "p", "-", "1">>, RATE_WIDTH),
                 rjust(<<"T", "o", "p", "-", "5">>, RATE_WIDTH),
                 rjust(<<"L", "o", "g", "L", "o", "s", "s">>, LOSS_WIDTH),
                 rjust(<<"N">>, COUNT_WIDTH)>>)

report_row(slug, metrics) ==
    IF metrics.n_samples = 0
    THEN join_cells(<<ljust(SlugText(slug), SLUG_WIDTH), rjust(Dashes, RATE_WIDTH),
                      rjust(Dashes, RATE_WIDTH), rjust(Dashes, LOSS_WIDTH),
                      rjust(str_int(0), COUNT_WIDTH)>>)
    ELSE join_cells(<<ljust(SlugText(slug), SLUG_WIDTH),
                      rjust(format_percent_1(metrics.top_1_hit_rate), RATE_WIDTH),
                      rjust(format_percent_1(metrics.top_5_hit_rate), RATE_WIDTH),
                      rjust(IF metrics.avg_log_loss # None
                            THEN format_3f(metrics.avg_log_loss[1]) ELSE Dashes,
                            LOSS_WIDTH),
                      rjust(str_int(metrics.n_samples), COUNT_WIDTH)>>)

(* the slugs of reversed(sorted(results.items())) *)
report_slugs_reversed(results) ==
    [i \in 1..Cardinality(DOMAIN results) |->
        sorted(DOMAIN results)[Cardinality(DOMAIN results) + 1 - i]]

(* the slugs of sorted(results.items()) *)
report_slugs(results) == sorted(DOMAIN results)

generate_accuracy_report(results) ==
    LET slugs == report_slugs(results)
    IN  <<report_header, [i \in DOMAIN report_header |-> "-"]>>
        \o [i \in DOMAIN slugs |-> report_row(slugs[i], results[slugs[i]])]

-----------------------------------------------------------------------------
(* The evaluator's explored inputs (specification SpecEval): the inputs    *)
(* are drawn in the initial state and one call is made on them.            *)

PredNames == {<<"T">>, <<" ", "m">>}
ActualNames == {<<"t", " ">>, <<"M">>, <<"V">>}

(* the probability of the entry at a rank, per profile *)
Profiles == {"graded", "tiny", "zero", "absent"}

ProbAt(profile, i) ==
    CASE profile = "graded" -> Some(Dec(30 - 3 * i, 2))
      [] profile = "tiny" -> Some(Dec(1, 13 + i))
      [] profile = "zero" -> Some(Dec(0, 0))
      [] profile = "absent" -> None

Predictions(names, profile) ==
    [i \in DOMAIN names |-> [flavor |-> names[i], probability |-> ProbAt(profile, i)]]

NameLists == UNION {[1..n -> PredNames] : n \in 0..MaxPreds}

DayInputs ==
    {[op |-> "evaluate_forecast_day",
      predictions |-> Predictions(names, profile),
      actual_flavor |-> actual] :
        names \in NameLists, profile \in Profiles, actual \in ActualNames}

(* documents: day 5 lies before the window, 7 is its first day, 9 is       *)
(* inside, 12 is after the day of the call (10, with window_days = 3)      *)
DocDates == {5, 7, 9, 12}
CallDays == {10}
WindowDays == {3}

DocPredictions ==
    {None, Some(<<>>), Some(JsonNull),
     Some(Predictions(<<<<"T">>, <<" ", "m">>>>, "graded")),
     Some(Predictions(<<<<" ", "m">>, <<"T">>>>, "absent")),
     Some(Predictions([i \in 1..MaxPreds |->
                          IF i = MaxPreds THEN <<"T">> ELSE <<" ", "m">>], "tiny"))}

DocDays ==
    {[date |-> d, predictions |-> pl] :
        d \in {None} \cup {Some(x) : x \in DocDates}, pl \in DocPredictions}

DayLists == UNION {[1..n -> DocDays] : n \in 0..MaxDocDays}

MultiDayDocs ==
    {[days |-> Some(dl), predictions |-> None, target_date |-> None, date |-> None] :
        dl \in DayLists}

SingleDayDocs ==
    {[days |-> dl, predictions |-> pl, target_date |-> td, date |-> dd] :
        dl \in {None, Some(<<>>), Some(JsonNull)},
        pl \in DocPredictions,
        td \in {None, Some(9)},
        dd \in {None, Some(9)}}

ActualsMaps ==
    {<<>>,
     [d \in DocDates |-> <<"t", " ">>],
     [d \in {7, 9} |-> IF d = 7 THEN <<"M">> ELSE <<"V">>],
     [d \in {9, 12} |-> <<"V">>]}

StoreInputs ==
    {[op |-> "evaluate_store_forecasts", forecast_data |-> fd, actuals |-> a,
      window_days |-> w, now |-> t] :
        fd \in MultiDayDocs \cup SingleDayDocs, a \in ActualsMaps,
        w \in WindowDays, t \in CallDays}

(* the results handed to generate_accuracy_report *)
ReportMetrics ==
    {[top_1_hit_rate |-> t1, top_5_hit_rate |-> t5, avg_log_loss |-> ll, n_samples |-> n] :
        t1 \in {Zero, R(1, 3), One}, t5 \in {R(2, 3), One},
        ll \in {None, Some(Dec(2345, 3)), Some(Dec(12346, 4))},
        n \in {0, 3, 12}}

ReportInputs ==
    {[op |-> "generate_accuracy_report", results |-> r] :
        r \in UNION {[S -> ReportMetrics] : S \in SUBSET Stores}}

InitEval ==
    /\ eval_in \in DayInputs \cup StoreInputs \cup ReportInputs
    /\ eval_out = Idle
    /\ model = DefaultFrequencyRecencyModel /\ model2 = model
    /\ data = {} /\ data2 = {}
    /\ call = NoCall
    /\ result = NoResult /\ result2 = NoResult
    /\ queue = NoQueue /\ todo_file = NoFile

predictor == <<data, model, call, result>>

EvaluateForecastDay ==
    /\ eval_in.op = "evaluate_forecast_day" /\ eval_out.op = "idle"
    /\ eval_out' = [op |-> "evaluate_forecast_day",
                    ret |-> evaluate_forecast_day(eval_in.predictions,
                                                  eval_in.actual_flavor)]
    /\ UNCHANGED <<eval_in, predictor, second, feedback>>

EvaluateStoreForecasts ==
    /\ eval_in.op = "evaluate_store_forecasts" /\ eval_out.op = "idle"
    /\ eval_out' = [op |-> "evaluate_store_forecasts",
                    ret |-> evaluate_store_forecasts(
                                eval_in.forecast_data, eval_in.actuals,
                                eval_in.window_days, eval_in.now)]
    /\ UNCHANGED <<eval_in, predictor, second, feedback>>

GenerateAccuracyReport ==
    /\ eval_in.op = "generate_accuracy_report" /\ eval_out.op = "idle"
    /\ eval_out' = [op |-> "generate_accuracy_report",
                    ret |-> generate_accuracy_report(eval_in.results)]
    /\ UNCHANGED <<eval_in, predictor, second, feedback>>

NextEval == EvaluateForecastDay \/ EvaluateStoreForecasts \/ GenerateAccuracyReport

SpecEval == InitEval /\ [][NextEval]_vars

-----------------------------------------------------------------------------
(* Claims about the evaluator, stated over SpecEval.                       *)

(* the name without its leading and trailing blanks, in lower case *)
Trimmed(s) ==
    LET inked == {i \in DOMAIN s : s[i] # " "}
    IN  IF inked = {} THEN <<>>
        ELSE [k \in 1..(SetMax(inked) - SetMin(inked) + 1) |->
                 lower_char(s[SetMin(inked) + k - 1])]

Matches(predictions, actual_flavor) ==
    {i \in DOMAIN predictions :
        Trimmed(predictions[i].flavor) = Trimmed(actual_flavor)}

DayEvaluated == eval_out.op = "evaluate_forecast_day"

(* C9: evaluate_forecast_day returns as rank the 1-based position of the   *)
(* first prediction whose trimmed, lower-cased flavor equals the trimmed,  *)
(* lower-cased actual flavor, None when there is none; top_1_hit iff       *)
(* rank = 1; top_5_hit iff 1 <= rank <= 5; log_loss is -ln(max(p, 1e-15))  *)
(* for the matched prediction's probability p, and is None exactly when    *)
(* rank is None.                                                           *)
C9_DayScore ==
    DayEvaluated =>
        LET predictions == eval_in.predictions
            ret == eval_out.ret
            hits == Matches(predictions, eval_in.actual_flavor)
        IN  /\ ret.rank = (IF hits = {} THEN None ELSE Some(SetMin(hits)))
            /\ ret.top_1_hit <=> (ret.rank = Some(1))
            /\ ret.top_5_hit <=> (ret.rank # None /\ 1 <= ret.rank[1] /\ ret.rank[1] <= 5)
            /\ (ret.log_loss = None) <=> (ret.rank = None)
            /\ \A i \in hits :
                  (i = SetMin(hits) /\ predictions[i].probability # None) =>
                      LET p == predictions[i].probability[1]
                      IN  ret.log_loss =
                            Some([neg_ln |-> IF DecLe(Dec(1, 15), p) THEN p
                                             ELSE Dec(1, 15)])

(* a match past the first position that needs the trimming and the lower   *)
(* case, on a probability below the floor, with a later match behind it    *)
C9_Witness ==
    /\ DayEvaluated
    /\ eval_out.ret.rank # None
    /\ LET k == eval_out.ret.rank[1]
           entry == eval_in.predictions[k]
       IN  /\ k > 1
           /\ entry.flavor # eval_in.actual_flavor
           /\ entry.probability # None
           /\ ~DecLe(Dec(1, 15), entry.probability[1])
           /\ eval_out.ret.log_loss = Some([neg_ln |-> Dec(1, 15)])
           /\ \E j \in Matches(eval_in.predictions, eval_in.actual_flavor) : j > k

StoreCalled == eval_out.op = "evaluate_store_forecasts"

StoreEvaluated == StoreCalled /\ "n_samples" \in DOMAIN eval_out.ret

HitRate(details, top) ==
    R(Cardinality({i \in DOMAIN details :
                      /\ details[i].day.rank # None
                      /\ details[i].day.rank[1] <= top}),
      Len(details))

MatchedLosses(details) ==
    LET matched == SelectSeq(details, LAMBDA d : d.day.rank # None)
    IN  [k \in DOMAIN matched |-> matched[k].day.log_loss[1]]

(* C10: when n >= 1 forecast days are evaluated, evaluate_store_forecasts  *)
(* returns n_samples = n = len(details), top_1_hit_rate = (days with       *)
(* rank 1)/n, top_5_hit_rate = (days with rank <= 5)/n, and avg_log_loss = *)
(* the mean of log_loss over only the days whose actual flavor was matched *)
(* (None when no day matched): an unmatched day counts in the hit-rate     *)
(* denominator and never in the log-loss average.                          *)
C10_StoreAggregates ==
    (StoreEvaluated /\ Len(eval_out.ret.details) >= 1) =>
        LET ret == eval_out.ret
            details == ret.details
            n == Len(details)
            losses == MatchedLosses(details)
        IN  /\ ret.n_samples = n
            /\ ret.top_1_hit_rate = HitRate(details, 1)
            /\ ret.top_5_hit_rate = HitRate(details, 5)
            /\ ret.avg_log_loss =
                  (IF losses = <<>> THEN None
                   ELSE Some([sum |-> losses, over |-> Len(losses)]))

(* two evaluated days, one matched at rank 1 and one unmatched *)
C10_Witness ==
    /\ StoreEvaluated
    /\ eval_out.ret.n_samples = 2
    /\ \E i, j \in DOMAIN eval_out.ret.details :
          /\ eval_out.ret.details[i].day.rank = Some(1)
          /\ eval_out.ret.details[j].day.rank = None
    /\ eval_out.ret.top_1_hit_rate = R(1, 2)
    /\ eval_out.ret.avg_log_loss # None
    /\ eval_out.ret.avg_log_loss[1].over = 1

-----------------------------------------------------------------------------
(* Claims about the documents evaluate_store_forecasts accepts.            *)

WindowStart == eval_in.now - eval_in.window_days

InWindow(d) == WindowStart <= d /\ d <= eval_in.now

Degenerate ==
    [top_1_hit_rate |-> Zero, top_5_hit_rate |-> Zero,
     avg_log_loss |-> None, n_samples |-> 0, details |-> <<>>]

IsList(opt) == opt # None /\ opt # Some(JsonNull)

(* C11: a single-day document in the shape generate_forecast_json emits    *)
(* (a date key, a predictions list, no days key) whose date lies inside    *)
(* the window and is a key of actuals is evaluated as exactly that one     *)
(* day: n_samples = 1.                                                     *)
C11_SingleDayDocumentEvaluated ==
    LET doc == eval_in.forecast_data
    IN  (/\ StoreCalled
         /\ doc.days = None /\ doc.target_date = None
         /\ doc.date # None
         /\ IsList(doc.predictions) /\ doc.predictions # Some(<<>>)
         /\ InWindow(doc.date[1])
         /\ doc.date[1] \in DOMAIN eval_in.actuals)
        => /\ StoreEvaluated
           /\ eval_out.ret.n_samples = 1
           /\ eval_out.ret.details[1].date = doc.date[1]

(* C12: a forecast day is evaluated only if its date d satisfies           *)
(* today - window_days <= d <= today and d is a key of actuals; a day      *)
(* before the window start or after today is never in details.             *)
C12_OnlyDaysInsideWindow ==
    StoreEvaluated =>
        \A i \in DOMAIN eval_out.ret.details :
            /\ InWindow(eval_out.ret.details[i].date)
            /\ eval_out.ret.details[i].date \in DOMAIN eval_in.actuals

NothingToEvaluate ==
    LET doc == eval_in.forecast_data
    IN  \/ eval_in.actuals = <<>>
        \/ /\ doc.days \in {None, Some(<<>>)}
           /\ doc.predictions \in {None, Some(<<>>)}

(* C13: evaluate_store_forecasts does not raise on a document that lacks   *)
(* the days and/or predictions keys (or has them empty) or on an empty     *)
(* actuals map, and whenever no forecast day is evaluated it returns       *)
(* exactly 0.0, 0.0, None, 0, [].                                          *)
C13_DegenerateNeverRaises ==
    (StoreCalled /\ eval_in.forecast_data.days # Some(JsonNull)) =>
        /\ StoreEvaluated
        /\ eval_out.ret.n_samples = 0 => eval_out.ret = Degenerate
        /\ eval_out.ret.details = <<>> => eval_out.ret = Degenerate
        /\ NothingToEvaluate => eval_out.ret = Degenerate

(* a document with neither days nor predictions, only a target_date,      *)
(* against a non-empty actuals map                                         *)
C13_Witness ==
    /\ StoreEvaluated
    /\ eval_out.ret = Degenerate
    /\ eval_in.forecast_data.days = None
    /\ eval_in.forecast_data.predictions = None
    /\ eval_in.forecast_data.target_date # None
    /\ eval_in.actuals # <<>>

-----------------------------------------------------------------------------
(* Forecast assembly (forecast_writer.py)                                  *)

EpochYear == 2025

(* str(date.date()): the ISO date, as <<year, month, day>> *)
isoformat(d) ==
    LET doy == (d + EpochDayOfYear) % 365
        m == month(d)
    IN  <<EpochYear + ((d + EpochDayOfYear) \div 365), m, doy - CumDays[m] + 1>>

DayNames ==
    <<"Monday", "Tuesday", "Wednesday", "Thursday", "Friday", "Saturday", "Sunday">>

(* date.strftime("%A") *)
strftime_A(d) == DayNames[dayofweek(d) + 1]

(* store_slug.replace("-", " ").title() *)
replace_dash(s) == [i \in DOMAIN s |-> IF s[i] = "-" THEN " " ELSE s[i]]

upper_char(c) ==
    CASE c = "m" -> "M" [] c = "t" -> "T" [] c = "h" -> "H" [] c = "v" -> "V"
      [] OTHER -> c

title_case(s) ==
    [i \in DOMAIN s |->
        IF i = 1 \/ s[i - 1] = " " THEN upper_char(s[i]) ELSE lower_char(s[i])]

store_name_of(store_slug) == title_case(replace_dash(SlugText(store_slug)))

(* round(float(p), 4) *)
round4(p) == Dec(round_units(p, 4), 4)

(* Series.nlargest(n), keep="last": of equal values the last comes first *)
RECURSIVE nlargest_keep_last(_, _)
nlargest_keep_last(proba, n) ==
    IF n <= 0 \/ proba.index = <<>> THEN Series(<<>>, <<>>)
    ELSE LET pos == DOMAIN proba.index
             best == CHOOSE i \in pos :
                        \A j \in pos :
                            \/ RLt(proba.values[j], proba.values[i])
                            \/ (proba.values[j] = proba.values[i] /\ j <= i)
             keep == [k \in 1..(Len(proba.index) - 1) |-> IF k < best THEN k ELSE k + 1]
             rest == nlargest_keep_last(
                         Series([k \in DOMAIN keep |-> proba.index[keep[k]]],
                                [k \in DOMAIN keep |-> proba.values[keep[k]]]),
                         n - 1)
         IN  Series(<<proba.index[best]>> \o rest.index,
                    <<proba.values[best]>> \o rest.values)

(* Series.nlargest(n), keep="first": the n largest values in descending    *)
(* order, equal values in the order of the index                           *)
RECURSIVE nlargest(_, _)
nlargest(proba, n) ==
    IF n <= 0 \/ proba.index = <<>> THEN Series(<<>>, <<>>)
    ELSE LET pos == DOMAIN proba.index
             best == CHOOSE i \in pos :
                        \A j \in pos :
                            \/ RLt(proba.values[j], proba.values[i])
                            \/ (proba.values[j] = proba.values[i] /\ i <= j)
             keep == [k \in 1..(Len(proba.index) - 1) |-> IF k < best THEN k ELSE k + 1]
             rest == nlargest(
                         Series([k \in DOMAIN keep |-> proba.index[keep[k]]],
                                [k \in DOMAIN keep |-> proba.values[keep[k]]]),
                         n - 1)
         IN  Series(<<proba.index[best]>> \o rest.index,
                    <<proba.values[best]>> \o rest.values)

(* [{"flavor": f, "probability": round(float(p), 4)} for f, p in top.items()] *)
prediction_entries(top) ==
    [i \in DOMAIN top.index |->
        [flavor |-> top.index[i], probability |-> round4(top.values[i])]]

(* analytics.basic_metrics.overdue_flavors(df, store_slug, as_of): the      *)
(* flavors of the store whose days since last served are at least 1.5      *)
(* times their average gap, the most overdue first                         *)
RECURSIVE by_ratio_descending(_)
by_ratio_descending(rows) ==
    IF rows = {} THEN <<>>
    ELSE LET first == CHOOSE r \in rows :
                        \A o \in rows :
                            \/ RLt(o.ratio, r.ratio)
                            \/ (o.ratio = r.ratio /\ r.title <= o.title)
         IN  <<first>> \o by_ratio_descending(rows \ {first})

overdue_flavors(df, store_slug, as_of) ==
    LET store_df == {e \in df : e.store_slug = store_slug /\ e.flavor_date < as_of}
        served(t) == {e.flavor_date : e \in {x \in store_df : x.title = t}}
        repeated == {t \in {e.title : e \in store_df} : Cardinality(served(t)) >= 2}
        row(t) ==
            LET days_since == as_of - SetMax(served(t))
                avg_gap == R(SetMax(served(t)) - SetMin(served(t)),
                             Cardinality(served(t)) - 1)
            IN  [title |-> t, days_since |-> days_since, avg_gap |-> avg_gap,
                 ratio |-> RDiv(R(days_since, 1), avg_gap)]
    IN  by_ratio_descending({r \in {row(t) : t \in repeated} : RLe(R(3, 2), r.ratio)})

(* overdue.head(n) *)
head(rows, n) == SubSeq(rows, 1, IF n < Len(rows) THEN n ELSE Len(rows))

(* store_df.sort_values("flavor_date", ascending=False) *)
RECURSIVE by_date_descending(_)
by_date_descending(rows) ==
    IF rows = {} THEN <<>>
    ELSE LET latest == CHOOSE r \in rows : \A o \in rows : o.flavor_date <= r.flavor_date
         IN  <<latest>> \o by_date_descending(rows \ {latest})

Returns(ret) == [kind |-> "return", error |-> "", ret |-> ret]
Raises(error) == [kind |-> "raise", error |-> error, ret |-> <<>>]

N_TOP == 5
N_OVERDUE == 3
RECENT_ROWS == 3

(* build_forecast_context after its call of model.predict_proba *)
forecast_context(proba, df, store_slug, date, n_top, n_overdue) ==
    IF proba.kind # "series" THEN Raises(proba.error)
    ELSE
    LET overdue == head(overdue_flavors(df, store_slug, date), n_overdue)
        recent == head(by_date_descending(historical_rows(df, store_slug, date)),
                       RECENT_ROWS)
    IN  Returns([store_slug |-> store_slug,
                 store_name |-> store_name_of(store_slug),
                 date |-> isoformat(date),
                 day_of_week |-> strftime_A(date),
                 predictions |-> prediction_entries(nlargest(proba, n_top)),
                 overdue_flavors |->
                    [i \in DOMAIN overdue |->
                        [flavor |-> overdue[i].title,
                         days_since |-> overdue[i].days_since,
                         avg_gap |-> overdue[i].avg_gap]],
                 recent_history |->
                    [i \in DOMAIN recent |->
                        [date |-> isoformat(recent[i].flavor_date),
                         flavor |-> recent[i].title]]])

build_forecast_context(self, df, store_slug, date, n_top, n_overdue) ==
    forecast_context(predict_proba(self, store_slug, date),
                     df, store_slug, date, n_top, n_overdue)

(* the template with the "Also possible" line from the runner-up on *)
format_forecast_template_also_from_second(context) ==
    LET preds == context.predictions
        overdue == context.overdue_flavors
        forecast ==
            IF preds # <<>>
            THEN <<[line |-> "headline", dow |-> context.day_of_week,
                    store |-> context.store_name, date |-> context.date],
                   [line |-> "blank"],
                   [line |-> "outlook", top |-> preds[1].flavor,
                    runner_up |-> IF Len(preds) > 1 THEN Some(preds[2].flavor) ELSE None]>>
                 \o (IF Len(preds) > 1
                     THEN <<[line |-> "also_possible",
                             others |-> [i \in 1..(Len(preds) - 1) |-> preds[i + 1].flavor]]>>
                     ELSE <<>>)
            ELSE <<[line |-> "headline_plain", store |-> context.store_name,
                    date |-> context.date],
                   [line |-> "blank"],
                   [line |-> "insufficient"]>>
        watch ==
            IF overdue # <<>>
            THEN <<[line |-> "blank"]>> \o
                 [i \in DOMAIN overdue |->
                    [line |-> "watch_for", flavor |-> overdue[i].flavor,
                     days_since |-> overdue[i].days_since,
                     avg_gap_0f |-> round_units(overdue[i].avg_gap, 0)]]
            ELSE <<>>
    IN  forecast \o watch

(* the lines of the template, joined by "\n"; a line is a record of the    *)
(* values its f-string interpolates                                        *)
format_forecast_template(context) ==
    LET preds == context.predictions
        overdue == context.overdue_flavors
        forecast ==
            IF preds # <<>>
            THEN <<[line |-> "headline", dow |-> context.day_of_week,
                    store |-> context.store_name, date |-> context.date],
                   [line |-> "blank"],
                   [line |-> "outlook", top |-> preds[1].flavor,
                    runner_up |-> IF Len(preds) > 1 THEN Some(preds[2].flavor) ELSE None]>>
                 \o (IF Len(preds) > 2
                     THEN <<[line |-> "also_possible",
                             others |-> [i \in 1..(Len(preds) - 2) |-> preds[i + 2].flavor]]>>
                     ELSE <<>>)
            ELSE <<[line |-> "headline_plain", store |-> context.store_name,
                    date |-> context.date],
                   [line |-> "blank"],
                   [line |-> "insufficient"]>>
        watch ==
            IF overdue # <<>>
            THEN <<[line |-> "blank"]>> \o
                 [i \in DOMAIN overdue |->
                    [line |-> "watch_for", flavor |-> overdue[i].flavor,
                     days_since |-> overdue[i].days_since,
                     avg_gap_0f |-> round_units(overdue[i].avg_gap, 0)]]
            ELSE <<>>
    IN  forecast \o watch

(* generate_forecast_json after its calls of model.predict_proba and of    *)
(* build_forecast_context                                                  *)
forecast_document(proba, context, store_slug, date, n_predictions) ==
    IF proba.kind # "series" THEN Raises(proba.error)
    ELSE Returns([store_slug |-> store_slug,
                  date |-> isoformat(date),
                  predictions |-> prediction_entries(nlargest(proba, n_predictions)),
                  total_probability |-> round4(RSum(proba.values)),
                  overdue_flavors |-> context.overdue_flavors,
                  prose |-> format_forecast_template(context)])

generate_forecast_json(self, df, store_slug, date, n_predictions) ==
    forecast_document(
        predict_proba(self, store_slug, date),
        build_forecast_context(self, df, store_slug, date, N_TOP, N_OVERDUE).ret,
        store_slug, date, n_predictions)

(* for p in single["predictions"]: p["certainty_tier"] = "estimated" *)
untagged(predictions) == predictions

tagged(predictions) ==
    [i \in DOMAIN predictions |->
        [flavor |-> predictions[i].flavor,
         probability |-> predictions[i].probability,
         certainty_tier |-> "estimated"]]

(* days.append({...}) for one single-day document *)
day_entry(single) ==
    [date |-> single.date,
     predictions |-> tagged(single.predictions),
     overdue_flavors |-> single.overdue_flavors,
     prose |-> single.prose]

(* generate_multiday_forecast_json after its calls of generate_forecast_json: *)
(* the first raise among them, or the document                             *)
multiday_document(singles, store_slug, history_depth, now) ==
    LET failed == {i \in DOMAIN singles : singles[i].kind = "raise"}
    IN  IF failed # {} THEN singles[SetMin(failed)]
        ELSE Returns([store_slug |-> store_slug,
                      generated_at |-> now,
                      history_depth |-> history_depth,
                      days |-> [i \in DOMAIN singles |-> day_entry(singles[i].ret)]])

generate_multiday_forecast_json(self, df, store_slug, start_date, n_days, n_predictions, now) ==
    multiday_document(
        (* for i in range(n_days): the i-th call, counted from 1 *)
        [i \in 1..n_days |->
            generate_forecast_json(self, df, store_slug, start_date + (i - 1),
                                   n_predictions)],
        store_slug,
        Cardinality({e \in df : e.store_slug = store_slug}),
        now)

(* generate_forecast_llm: the environment of one call                      *)
(*   importable: `import anthropic` succeeds                               *)
(*   api_key, environ_key: the argument and os.environ's ANTHROPIC_API_KEY *)
(*   construct: anthropic.Anthropic(api_key=...) returns or raises         *)
(*   request: client.messages.create returns a message with a text block,  *)
(*            returns a message with no content block, or raises           *)
LlmText == <<[line |-> "llm_text"]>>

generate_forecast_llm(context, env) ==
    IF ~env.importable THEN Returns(format_forecast_template(context))
    ELSE LET api_key == IF env.api_key # None THEN env.api_key ELSE env.environ_key
         IN  IF api_key = None THEN Returns(format_forecast_template(context))
             ELSE IF env.construct = "raise" THEN Raises("Exception")
             ELSE IF env.request = "text" THEN Returns(LlmText)
             ELSE Returns(format_forecast_template(context))

-----------------------------------------------------------------------------
(* The forecast writer driven on a fitted model (specification SpecWriter) *)

WriterHistories == StoreRuns(SetMin(Stores), WriterMaxDay)

WriterDates == {1, WriterMaxDay + 1, FarDay}

TopSizes == 0..MaxTop

ForecastDays == 0..MaxForecastDays

WriterClock == {FarDay}

LlmEnvs ==
    {[importable |-> FALSE, api_key |-> None, environ_key |-> None,
      construct |-> "return", request |-> "text"],
     [importable |-> TRUE, api_key |-> None, environ_key |-> None,
      construct |-> "return", request |-> "text"]}
    \cup {[importable |-> TRUE, api_key |-> k[1], environ_key |-> k[2],
           construct |-> c[1], request |-> c[2]] :
            k \in {<<Some("key"), None>>, <<None, Some("key")>>},
            c \in {<<"raise", "text">>, <<"return", "raise">>,
                   <<"return", "no_content">>, <<"return", "text">>}}

InitWriter ==
    /\ model \in {DefaultFrequencyRecencyModel, DefaultMarkovRecencyModel}
    /\ data = {}
    /\ call = NoCall
    /\ result = NoResult
    /\ data2 = {} /\ model2 = model /\ result2 = NoResult
    /\ eval_in = Idle /\ eval_out = Idle
    /\ queue = NoQueue /\ todo_file = NoFile

BuildForecastContext(store_slug, date, n_top) ==
    /\ call' = [op |-> "build_forecast_context", store_slug |-> store_slug,
                date |-> date, n |-> n_top]
    /\ result' = build_forecast_context(model, data, store_slug, date, n_top, N_OVERDUE)
    /\ UNCHANGED <<model, data, second, evaluator, feedback>>

GenerateForecastJson(store_slug, date, n_predictions) ==
    /\ call' = [op |-> "generate_forecast_json", store_slug |-> store_slug,
                date |-> date, n |-> n_predictions]
    /\ result' = generate_forecast_json(model, data, store_slug, date, n_predictions)
    /\ UNCHANGED <<model, data, second, evaluator, feedback>>

GenerateMultidayForecastJson(store_slug, start_date, n_days, n_predictions, now) ==
    /\ call' = [op |-> "generate_multiday_forecast_json", store_slug |-> store_slug,
                date |-> start_date, n |-> n_predictions, n_days |-> n_days]
    /\ result' = generate_multiday_forecast_json(model, data, store_slug, start_date,
                                                 n_days, n_predictions, now)
    /\ UNCHANGED <<model, data, second, evaluator, feedback>>

(* the narrative for a context build_forecast_context has just returned *)
GenerateForecastLlm(env) ==
    /\ call.op = "build_forecast_context" /\ result.kind = "return"
    /\ call.n = MaxTop
    /\ call' = [op |-> "generate_forecast_llm", context |-> result.ret, env |-> env]
    /\ result' = generate_forecast_llm(result.ret, env)
    /\ UNCHANGED <<model, data, second, evaluator, feedback>>

(* the writer calls leave the model as it is, so one call is explored on   *)
(* each model state                                                        *)
WriterReady == call.op \in {"none", "fit"}

NextWriter ==
    \/ (~model.has_df /\ \E df \in WriterHistories : Fit(df))
    \/ (WriterReady /\ \E s \in Stores, d \in WriterDates, n \in TopSizes :
            BuildForecastContext(s, d, n))
    \/ (WriterReady /\ \E s \in Stores, d \in WriterDates, n \in TopSizes :
            GenerateForecastJson(s, d, n))
    \/ (WriterReady /\ \E s \in Stores, d \in WriterDates, k \in ForecastDays,
                          now \in WriterClock :
            GenerateMultidayForecastJson(s, d, k, MaxTop, now))
    \/ \E env \in LlmEnvs : GenerateForecastLlm(env)

SpecWriter == InitWriter /\ [][NextWriter]_vars

-----------------------------------------------------------------------------
(* analytics.batch_forecast.generate_all_forecasts                         *)
(* (specification SpecBatch)                                               *)

MIN_OBSERVATIONS == 10

(* sorted(df["store_slug"].unique().tolist()) *)
store_list(df) == sorted({e.store_slug : e \in df})

(* if len(store_df) < 10 *)
too_few_or_exactly(observations) == observations <= MIN_OBSERVATIONS

too_few(observations) == observations < MIN_OBSERVATIONS

(* the lines printed to stderr *)
skipping_warning(slug, observations) ==
    [line |-> "WARNING: skipping", slug |-> slug, observations |-> observations]

skipped_summary(skipped) ==
    IF skipped # <<>>
    THEN <<[line |-> "Skipped", count |-> Len(skipped), slugs |-> skipped]>>
    ELSE <<>>

(* the loop's variables before the first store *)
NoForecasts ==
    [kind |-> "return", error |-> "", forecasts |-> <<>>, skipped |-> <<>>,
     stderr |-> <<>>]

(* skipped.append(slug); print(...); continue *)
skip_store(loop, slug, observations) ==
    [loop EXCEPT !.skipped = Append(@, slug),
                 !.stderr = Append(@, skipping_warning(slug, observations))]

(* forecasts[slug] = forecast, or the exception of the writer goes on to   *)
(* the caller                                                              *)
keep_forecast(loop, slug, forecast) ==
    IF forecast.kind = "raise"
    THEN [loop EXCEPT !.kind = "raise", !.error = forecast.error]
    ELSE [loop EXCEPT !.forecasts = (slug :> forecast.ret) @@ @]

store_forecast(model_, df, slug, target_date, n_days, n_predictions, now) ==
    IF n_days > 1
    THEN generate_multiday_forecast_json(model_, df, slug, target_date, n_days, n_predictions, now)
    ELSE generate_forecast_json(model_, df, slug, target_date, n_predictions)

(* for slug in stores *)
RECURSIVE forecast_stores(_, _, _, _, _, _, _, _)
forecast_stores(model_, df, stores, target_date, n_days, n_predictions, now, loop) ==
    IF stores = <<>> \/ loop.kind = "raise" THEN loop
    ELSE forecast_stores(model_, df, Tail(stores), target_date, n_days, n_predictions, now,
            IF too_few(Cardinality({e \in df : e.store_slug = Head(stores)}))
            THEN skip_store(loop, Head(stores),
                            Cardinality({e \in df : e.store_slug = Head(stores)}))
            ELSE keep_forecast(loop, Head(stores),
                    store_forecast(model_, df, Head(stores), target_date, n_days,
                                   n_predictions, now)))

(* what generate_all_forecasts hands back after the loop *)
batch_document(loop, target_date, n_days, now) ==
    IF loop.kind = "raise"
    THEN [kind |-> "raise", error |-> loop.error, ret |-> <<>>, stderr |-> loop.stderr]
    ELSE [kind |-> "return", error |-> "",
          ret |-> [generated_at |-> now,
                   target_date |-> isoformat(target_date),
                   n_days |-> n_days,
                   n_stores |-> Cardinality(DOMAIN loop.forecasts),
                   model |-> "frequency_recency_v1",
                   forecasts |-> loop.forecasts],
          stderr |-> loop.stderr \o skipped_summary(loop.skipped)]

(* target_date and stores are None or a value; now is datetime.now()       *)
batch_forecasts(df, target_date, stores, n_predictions, n_days, now) ==
    batch_document(
        forecast_stores(fit(DefaultFrequencyRecencyModel, df), df, stores, target_date,
                        n_days, n_predictions, now, NoForecasts),
        target_date, n_days, now)

generate_all_forecasts(df, target_date, stores, n_predictions, n_days, now) ==
    batch_forecasts(df,
                    IF target_date = None THEN now + 1 ELSE target_date[1],
                    IF stores = None THEN store_list(df) ELSE stores[1],
                    n_predictions, n_days, now)

(* a store's rows: none, or one row a day from day 0 on, the titles         *)
(* alternating                                                             *)
BatchRuns(store_slug) ==
    {{}} \cup
    {{Row(store_slug, d, ((d + shift) % 2) + 1) : d \in 0..(n - 1)} :
        n \in (MIN_OBSERVATIONS - 1)..BatchMaxRows, shift \in 0..1}

BatchHistories ==
    {r1 \cup r2 : r1 \in BatchRuns(SetMin(Stores)), r2 \in BatchRuns(SetMax(Stores))}

(* a slug no history holds *)
AbsentStore == SetMax(Stores) + 1

RequestedStores ==
    {None, Some(<<>>), Some(<<AbsentStore>>), Some(<<SetMin(Stores), SetMin(Stores)>>),
     Some(<<SetMax(Stores), SetMin(Stores)>>),
     Some(<<AbsentStore, SetMax(Stores), SetMin(Stores)>>),
     Some(<<SetMin(Stores), AbsentStore, SetMax(Stores)>>)}

TargetDates == {None, Some(1), Some(BatchMaxRows)}

InitBatch ==
    /\ data \in BatchHistories
    /\ model = DefaultFrequencyRecencyModel
    /\ call = NoCall
    /\ result = NoResult
    /\ data2 = {} /\ model2 = model /\ result2 = NoResult
    /\ eval_in = Idle /\ eval_out = Idle
    /\ queue = NoQueue /\ todo_file = NoFile

GenerateAllForecasts(target_date, stores, n_predictions, n_days, now) ==
    /\ call.op = "none"
    /\ call' = [op |-> "generate_all_forecasts", target_date |-> target_date,
                stores |-> stores, n |-> n_predictions, n_days |-> n_days]
    /\ result' = generate_all_forecasts(data, target_date, stores, n_predictions,
                                        n_days, now)
    /\ UNCHANGED <<model, data, second, evaluator, feedback>>

NextBatch ==
    \E target_date \in TargetDates, stores \in RequestedStores, n_days \in ForecastDays,
       now \in WriterClock :
        GenerateAllForecasts(target_date, stores, MaxTop, n_days, now)

SpecBatch == InitBatch /\ [][NextBatch]_vars

-----------------------------------------------------------------------------
(* scripts.feedback_queue (specification SpecQueue)                        *)
(* A str is the sequence of its characters; a dict is a function on its    *)
(* keys; the TODO file is None when it does not exist, else its text       *)

TITLE_MAX == 80
NOTE_MAX == 240
TEXT_MAX == 500
INFERRED_TITLE_MAX == 56
INFERRED_SOURCE_MAX == 180

DEFAULT_TITLE ==
    <<"F", "e", "e", "d", "b", "a", "c", "k", " ",
      "f", "o", "l", "l", "o", "w", "-", "u", "p">>

DEFAULT_SOURCE == <<"u", "s", "e", "r">>

item_get(item, key, default) == IF key \in DOMAIN item THEN item[key] ELSE default

(* value or default, for a str *)
or_else(value, default) == IF value = <<>> THEN default ELSE value

(* iso_utc(value) *)
iso_utc(value) == str_int(value) \o <<"Z">>

(* f"{random.randrange(16**4):04x}" for a suffix below 10 *)
hex4(suffix) == zero_padded(str_int(suffix), 4)

generate_feedback_id(now, suffix) ==
    <<"f", "b", "_">> \o str_int(now) \o <<"_">> \o hex4(suffix)

(* re.sub(r"\s+", " ", value) *)
RECURSIVE collapse_whitespace(_)
collapse_whitespace(value) ==
    IF value = <<>> THEN <<>>
    ELSE IF isspace(value[1]) THEN <<" ">> \o collapse_whitespace(lstrip(value))
    ELSE <<value[1]>> \o collapse_whitespace(Tail(value))

compact_text(value, max_len) ==
    IF Len(collapse_whitespace(strip(value))) <= max_len
    THEN collapse_whitespace(strip(value))
    ELSE rstrip(SubSeq(collapse_whitespace(strip(value)), 1, max_len - 3))
         \o <<".", ".", ".">>

(* re.split(r"[.!?]", normalized, maxsplit=1)[0] *)
RECURSIVE first_sentence(_)
first_sentence(normalized) ==
    IF normalized = <<>> \/ normalized[1] \in {".", "!", "?"} THEN <<>>
    ELSE <<normalized[1]>> \o first_sentence(Tail(normalized))

infer_todo_title(feedback_text) ==
    IF compact_text(feedback_text, INFERRED_SOURCE_MAX) = <<>> THEN DEFAULT_TITLE
    ELSE compact_text(
            or_else(strip(first_sentence(compact_text(feedback_text, INFERRED_SOURCE_MAX))),
                    compact_text(feedback_text, INFERRED_SOURCE_MAX)),
            INFERRED_TITLE_MAX)

(* the outcomes of a call on the queue: what it returns or raises, and the *)
(* queue and the file it leaves                                            *)
QueueReturns(ret, queue_, file) ==
    [kind |-> "return", error |-> "", ret |-> ret, queue |-> queue_, file |-> file]

QueueRaises(error, queue_, file) ==
    [kind |-> "raise", error |-> error, ret |-> <<>>, queue |-> queue_, file |-> file]

new_item(text, source, tags, created, item_id) ==
    [id |-> item_id,
     created_at |-> iso_utc(created),
     source |-> or_else(strip(or_else(source, DEFAULT_SOURCE)), DEFAULT_SOURCE),
     tags |-> tags,
     text |-> compact_text(text, TEXT_MAX),
     status |-> "new"]

(* item_id is None or a str; suffix is what random.randrange gives *)
add_feedback_item(queue_, file, text, source, tags, now, item_id, suffix) ==
    IF strip(text) = <<>> THEN QueueRaises("ValueError", queue_, file)
    ELSE QueueReturns(
            new_item(text, source, tags, now,
                     IF item_id = None \/ item_id = Some(<<>>)
                     THEN generate_feedback_id(now, suffix) ELSE item_id[1]),
            [items |-> Append(queue_.items,
                new_item(text, source, tags, now,
                         IF item_id = None \/ item_id = Some(<<>>)
                         THEN generate_feedback_id(now, suffix) ELSE item_id[1]))],
            file)

(* the index of the first item with the id, or 0 *)
_find_item(queue_, item_id) ==
    IF \E i \in DOMAIN queue_.items : item_get(queue_.items[i], "id", None) = item_id
    THEN SetMin({i \in DOMAIN queue_.items : item_get(queue_.items[i], "id", None) = item_id})
    ELSE 0

(* str.splitlines() *)
RECURSIVE first_line(_)
first_line(text) ==
    IF text = <<>> \/ text[1] = "\n" THEN <<>>
    ELSE <<text[1]>> \o first_line(Tail(text))

RECURSIVE splitlines(_)
splitlines(text) ==
    IF text = <<>> THEN <<>>
    ELSE <<first_line(text)>> \o
         splitlines(SubSeq(text, Len(first_line(text)) + 2, Len(text)))

(* "\n".join(lines) + "\n" *)
RECURSIVE join_lines(_)
join_lines(lines) ==
    IF lines = <<>> THEN <<"\n">>
    ELSE IF Len(lines) = 1 THEN lines[1] \o <<"\n">>
    ELSE lines[1] \o <<"\n">> \o join_lines(Tail(lines))

startswith(line, prefix) ==
    Len(line) >= Len(prefix) /\ SubSeq(line, 1, Len(prefix)) = prefix

HEADING_PREFIX == <<"#", "#", "#", " ">>

(* the first idx with lines[idx].strip() == section_heading.strip(), or 0 *)
section_index(lines, section_heading) ==
    IF \E i \in DOMAIN lines : strip(lines[i]) = strip(section_heading)
    THEN SetMin({i \in DOMAIN lines : strip(lines[i]) = strip(section_heading)})
    ELSE 0

(* the first heading after the section, or one past the last line *)
next_heading_index(lines, section_idx) ==
    SetMin({i \in (section_idx + 1)..Len(lines) : startswith(lines[i], HEADING_PREFIX)}
           \cup {Len(lines) + 1})

(* while insert_idx > section_idx + 1 and the line before is blank *)
RECURSIVE insert_index(_, _, _)
insert_index(lines, section_idx, insert_idx) ==
    IF insert_idx > section_idx + 1 /\ strip(lines[insert_idx - 1]) = <<>>
    THEN insert_index(lines, section_idx, insert_idx - 1)
    ELSE insert_idx

(* lines.insert(insert_idx, todo_line), the index counted from 1 *)
list_insert(lines, insert_idx, todo_line) ==
    SubSeq(lines, 1, insert_idx - 1) \o <<todo_line>> \o SubSeq(lines, insert_idx, Len(lines))

is_in(lines, todo_line) == \E i \in DOMAIN lines : lines[i] = todo_line

insert_todo_line(queue_, file, section_heading, todo_line) ==
    IF file = None THEN QueueRaises("ValueError", queue_, file)
    ELSE IF is_in(splitlines(file[1]), todo_line) THEN QueueReturns(FALSE, queue_, file)
    ELSE IF section_index(splitlines(file[1]), section_heading) = 0
         THEN QueueRaises("ValueError", queue_, file)
    ELSE QueueReturns(TRUE, queue_,
            Some(join_lines(list_insert(splitlines(file[1]),
                    insert_index(splitlines(file[1]),
                        section_index(splitlines(file[1]), section_heading),
                        next_heading_index(splitlines(file[1]),
                            section_index(splitlines(file[1]), section_heading))),
                    todo_line))))

(* f"- [ ] **{todo_title}** -- {todo_note} (feedback {item_id})" *)
todo_line_of(item_text, item_id, title, note) ==
    <<"-", " ", "[", " ", "]", " ", "*", "*">>
    \o compact_text(or_else(strip(or_else(get(title, <<>>), infer_todo_title(item_text))),
                            DEFAULT_TITLE), TITLE_MAX)
    \o <<"*", "*", " ", "-", "-", " ">>
    \o compact_text(strip(or_else(get(note, <<>>), item_text)), NOTE_MAX)
    \o <<" ", "(", "f", "e", "e", "d", "b", "a", "c", "k", " ">>
    \o item_id \o <<")">>

(* item["status"] = "promoted" and the three todo_ keys *)
promoted_item(item, todo_line, section_heading, now) ==
    [key \in DOMAIN item \cup {"status", "todo_line", "todo_section", "todo_added_at"} |->
        CASE key = "status" -> "promoted"
          [] key = "todo_line" -> todo_line
          [] key = "todo_section" -> section_heading
          [] key = "todo_added_at" -> iso_utc(now)
          [] OTHER -> item[key]]

is_promoted_never(item) == FALSE

(* item.get("status") == "promoted" *)
is_promoted(item) == item_get(item, "status", None) = "promoted"

(* promote_feedback_item once the item, its line and the outcome of        *)
(* insert_todo_line are at hand                                            *)
promote_found(queue_, idx, todo_line, section_heading, now, inserted) ==
    IF inserted.kind = "raise" THEN inserted
    ELSE QueueReturns(
            [item |-> promoted_item(queue_.items[idx], todo_line, section_heading, now),
             inserted |-> inserted.ret],
            [items |-> [queue_.items EXCEPT
                ![idx] = promoted_item(queue_.items[idx], todo_line, section_heading, now)]],
            inserted.file)

promote_item_at(queue_, file, idx, item_id, section_heading, title, note, now) ==
    IF idx = 0 THEN QueueRaises("ValueError", queue_, file)
    ELSE IF is_promoted(queue_.items[idx])
    THEN QueueReturns([item |-> queue_.items[idx], inserted |-> FALSE], queue_, file)
    ELSE promote_found(queue_, idx,
            todo_line_of(strip(item_get(queue_.items[idx], "text", <<>>)), item_id, title, note),
            section_heading, now,
            insert_todo_line(queue_, file, section_heading,
                todo_line_of(strip(item_get(queue_.items[idx], "text", <<>>)), item_id,
                             title, note)))

promote_feedback_item(queue_, file, item_id, section_heading, title, note, now) ==
    promote_item_at(queue_, file, _find_item(queue_, item_id), item_id, section_heading,
                    title, note, now)

(* the explored calls *)
FeedbackText == <<" ", "y", ".", " ", "\n", "z", "\n">>

FeedbackTexts == {FeedbackText, <<" ", "\n">>}

ExplicitIds == {None, Some(<<"a">>)}

Clock == {1, 2}

SectionB == <<"#", "#", "#", " ", "B">>

SectionHeadings == {<<" ">> \o SectionB, <<"#", "#", "#", " ", "Z">>}

TitleOverrides == {None, Some(<<" ", "T", "\n", "t", " ">>)}

(* the note is given together with the title *)
NoteOverrides(title) == IF title = None THEN {None} ELSE {Some(<<"n">>)}

(* no file; the section alone; the section between other lines and before *)
(* the next heading; the section already holding the line of item a       *)
TodoFiles ==
    {None,
     Some(SectionB \o <<"\n">>),
     Some(<<"#", " ", "T", "\n", "\n">> \o SectionB \o
          <<"\n", "-", " ", "e", "\n", "\n", "#", "#", "#", " ", "C", "\n">>),
     Some(SectionB \o <<"\n">> \o
          todo_line_of(strip(compact_text(FeedbackText, TEXT_MAX)), <<"a">>, None, None)
          \o <<"\n">>)}

InitQueue ==
    /\ queue = NoQueue
    /\ todo_file \in TodoFiles
    /\ model = DefaultFrequencyRecencyModel /\ model2 = model
    /\ data = {} /\ data2 = {}
    /\ call = NoCall
    /\ result = NoResult /\ result2 = NoResult
    /\ eval_in = Idle /\ eval_out = Idle

AddFeedbackItem(text, now, item_id, suffix) ==
    /\ Len(queue.items) < MaxItems
    /\ call' = [op |-> "add_feedback_item", item_id |-> item_id, now |-> now]
    /\ result' = add_feedback_item(queue, todo_file, text, <<>>, <<>>, now, item_id, suffix)
    /\ queue' = result'.queue
    /\ todo_file' = result'.file
    /\ UNCHANGED <<model, data, second, evaluator>>

(* the ids a caller names: the two the explored adds give, and one no    *)
(* item has                                                               *)
PromoteIds == {<<"a">>, generate_feedback_id(SetMin(Clock), 0), <<"z">>}

PromoteFeedbackItem(item_id, section_heading, title, note, now) ==
    /\ call' = [op |-> "promote_feedback_item", item_id |-> item_id, now |-> now]
    /\ result' = promote_feedback_item(queue, todo_file, item_id, section_heading,
                                       title, note, now)
    /\ queue' = result'.queue
    /\ todo_file' = result'.file
    /\ UNCHANGED <<model, data, second, evaluator>>

NextQueue ==
    \/ \E text \in FeedbackTexts, item_id \in ExplicitIds :
            AddFeedbackItem(text, SetMin(Clock), item_id, 0)
    \/ \E item_id \in PromoteIds, section_heading \in SectionHeadings,
          title \in TitleOverrides, now \in Clock :
        \E note \in NoteOverrides(title) :
            PromoteFeedbackItem(item_id, section_heading, title, note, now)

SpecQueue == InitQueue /\ [][NextQueue]_vars

-----------------------------------------------------------------------------
(* XGBoostFlavorModel.fit: the training matrix handed to the classifier    *)
(* (specification SpecTraining)                                            *)

NEVER_SEEN == 999

(* [0] * n with a 1 at position hot, counted from 0 *)
one_hot(n, hot) == [i \in 1..n |-> IF i = hot + 1 THEN 1 ELSE 0]

(* days since last served, one per vocabulary flavor *)
days_since_features(all_flavors, date, historical) ==
    IF historical # {}
    THEN [i \in DOMAIN all_flavors |->
            IF \E e \in historical : e.title = all_flavors[i]
            THEN date - SetMax({e.flavor_date : e \in {x \in historical : x.title = all_flavors[i]}})
            ELSE NEVER_SEEN]
    ELSE [i \in DOMAIN all_flavors |-> NEVER_SEEN]

_build_features(all_flavors, date, historical) ==
    days_since_features(all_flavors, date, historical)
    \o one_hot(7, dayofweek(date)) \o one_hot(12, month(date) - 1)

(* store_df.sort_values("flavor_date") *)
RECURSIVE sort_values(_)
sort_values(store_df) ==
    IF store_df = {} THEN <<>>
    ELSE LET first == CHOOSE e \in store_df :
                        \A x \in store_df : e.flavor_date <= x.flavor_date
         IN  <<first>> \o sort_values(store_df \ {first})

(* self.flavor_to_idx[title] *)
flavor_to_idx(all_flavors, title) ==
    (CHOOSE i \in DOMAIN all_flavors : all_flavors[i] = title) - 1

(* range(30, len(dates)), the positions counted from 1 *)
training_range_from_start(n) == 1..n

training_range(n) == (WARMUP_OBSERVATIONS + 1)..n

(* the rows one store adds to X_rows and y_labels *)
store_training_rows(all_flavors, store_df, dated) ==
    [k \in 1..Cardinality(training_range(Len(dated))) |->
        [features |-> _build_features(all_flavors,
                          dated[k + Len(dated) - Cardinality(training_range(Len(dated)))].flavor_date,
                          {x \in store_df : x.flavor_date <
                              dated[k + Len(dated) - Cardinality(training_range(Len(dated)))].flavor_date}),
         label |-> flavor_to_idx(all_flavors,
                          dated[k + Len(dated) - Cardinality(training_range(Len(dated)))].title)]]

(* for store_slug, store_df in df.groupby("store_slug"), in sorted order *)
RECURSIVE training_matrix(_, _, _)
training_matrix(all_flavors, df, store_slugs) ==
    IF store_slugs = <<>> THEN <<>>
    ELSE store_training_rows(all_flavors,
                             {e \in df : e.store_slug = Head(store_slugs)},
                             sort_values({e \in df : e.store_slug = Head(store_slugs)}))
         \o training_matrix(all_flavors, df, Tail(store_slugs))

(* X_rows and y_labels of fit(df) *)
XGBoost_fit_training(df) ==
    LET rows == training_matrix(sorted(unique_titles(df)), df,
                                sorted({e.store_slug : e \in df}))
    IN  [kind |-> "training", error |-> "",
         X_rows |-> [i \in DOMAIN rows |-> rows[i].features],
         y_labels |-> [i \in DOMAIN rows |-> rows[i].label]]

(* a store's rows: none, or one row a day from day 0 on; the titles        *)
(* alternate, or the second title is served only on the last day, or only  *)
(* on the first                                                            *)
TrainingTitle(pattern, d, n) ==
    CASE pattern = 1 -> (d % 2) + 1
      [] pattern = 2 -> IF d = n - 1 THEN 2 ELSE 1
      [] OTHER -> IF d = 0 THEN 2 ELSE 1

TrainingRuns(store_slug) ==
    {{}} \cup
    {{Row(store_slug, d, TrainingTitle(pattern, d, n)) : d \in 0..(n - 1)} :
        n \in (WARMUP_OBSERVATIONS - 1)..TrainMaxRows, pattern \in 1..3}

TrainingHistories ==
    {r1 \cup r2 : r1 \in TrainingRuns(SetMin(Stores)), r2 \in TrainingRuns(SetMax(Stores))}

InitTraining ==
    /\ model = XGBoostFlavorModel
    /\ data \in TrainingHistories
    /\ call = NoCall
    /\ result = NoResult
    /\ data2 = {} /\ model2 = model /\ result2 = NoResult
    /\ eval_in = Idle /\ eval_out = Idle
    /\ queue = NoQueue /\ todo_file = NoFile

FitClassifier ==
    /\ call.op = "none"
    /\ model' = fit(model, data)
    /\ call' = [op |-> "fit", store_slug |-> 0, date |-> 0]
    /\ result' = XGBoost_fit_training(data)
    /\ UNCHANGED <<data, second, evaluator, feedback>>

NextTraining == FitClassifier

SpecTraining == InitTraining /\ [][NextTraining]_vars

-----------------------------------------------------------------------------
(* format_forecast_template applied to contexts of every shape             *)
(* (specification SpecTemplate)                                            *)

TemplateFlavors == 1..3

RECURSIVE ListsUpTo(_, _)
ListsUpTo(entries, n) ==
    IF n = 0 THEN {<<>>}
    ELSE ListsUpTo(entries, n - 1) \cup
         {Append(l, x) : l \in {y \in ListsUpTo(entries, n - 1) : Len(y) = n - 1},
                         x \in entries}

TemplatePredictions ==
    ListsUpTo({[flavor |-> t, probability |-> R(1, 4)] : t \in TemplateFlavors},
              MaxTemplatePreds)

TemplateOverdue ==
    ListsUpTo({[flavor |-> 1, days_since |-> 10, avg_gap |-> R(3, 1)],
               [flavor |-> 2, days_since |-> 7, avg_gap |-> R(5, 2)]},
              MaxTemplateOverdue)

TemplateContexts ==
    {[store_slug |-> SetMin(Stores), store_name |-> store_name_of(SetMin(Stores)),
      date |-> isoformat(1), day_of_week |-> strftime_A(1),
      predictions |-> preds, overdue_flavors |-> overdue, recent_history |-> <<>>] :
        preds \in TemplatePredictions, overdue \in TemplateOverdue}

InitTemplate ==
    /\ model = DefaultFrequencyRecencyModel
    /\ data = {}
    /\ call = NoCall
    /\ result = NoResult
    /\ data2 = {} /\ model2 = model /\ result2 = NoResult
    /\ eval_in = Idle /\ eval_out = Idle
    /\ queue = NoQueue /\ todo_file = NoFile

(* the template reads its context alone, so one call is explored *)
FormatForecastTemplate(context) ==
    /\ call.op = "none"
    /\ call' = [op |-> "format_forecast_template", context |-> context]
    /\ result' = Returns(format_forecast_template(context))
    /\ UNCHANGED <<model, data, second, evaluator, feedback>>

NextTemplate == \E context \in TemplateContexts : FormatForecastTemplate(context)

SpecTemplate == InitTemplate /\ [][NextTemplate]_vars

-----------------------------------------------------------------------------
(* Claims about the forecast writer, stated over SpecWriter.               *)

Min(a, b) == IF a <= b THEN a ELSE b

(* a call of build_forecast_context or generate_forecast_json has returned *)
TopListReturned ==
    /\ call.op \in {"build_forecast_context", "generate_forecast_json"}
    /\ result.kind = "return"

(* the distribution the call obtained from the model *)
CallProba == predict_proba(model, call.store_slug, call.date)

(* the place of a flavor in the vocabulary *)
VocabularyIndex(f) == CHOOSE i \in DOMAIN model.all_flavors : model.all_flavors[i] = f

ProbaOf(f) == CallProba.values[VocabularyIndex(f)]

(* flavor f ranks before flavor g: a larger probability, or the same       *)
(* probability and an earlier place in the vocabulary                      *)
RanksBefore(f, g) ==
    \/ RLt(ProbaOf(g), ProbaOf(f))
    \/ (ProbaOf(g) = ProbaOf(f) /\ VocabularyIndex(f) < VocabularyIndex(g))

(* C14: the predictions list of build_forecast_context and of              *)
(* generate_forecast_json holds exactly min(N, |V|) distinct flavors, the  *)
(* ones with the N largest probabilities, in non-increasing probability    *)
(* order; flavors of equal probability stand in vocabulary order, and a    *)
(* tie at the cut-off goes to the flavor that is first in the vocabulary.  *)
C14_TopNInVocabularyOrder ==
    TopListReturned =>
        LET predictions == result.ret.predictions
            listed == {predictions[i].flavor : i \in DOMAIN predictions}
            vocabulary == {model.all_flavors[i] : i \in DOMAIN model.all_flavors}
        IN  /\ Len(predictions) = Min(call.n, Len(model.all_flavors))
            /\ Cardinality(listed) = Len(predictions)
            /\ listed \subseteq vocabulary
            /\ \A i \in DOMAIN predictions :
                  predictions[i].probability = round4(ProbaOf(predictions[i].flavor))
            /\ \A i, j \in DOMAIN predictions :
                  i < j => /\ RanksBefore(predictions[i].flavor, predictions[j].flavor)
                           /\ predictions[j].probability.m <= predictions[i].probability.m
            /\ \A f \in listed : \A g \in vocabulary \ listed : RanksBefore(f, g)

(* one place for two flavors of the same probability: the first of the     *)
(* vocabulary is listed                                                    *)
C14_Witness ==
    /\ TopListReturned
    /\ call.n = 1
    /\ Len(model.all_flavors) = 2
    /\ CallProba.values[1] = CallProba.values[2]
    /\ result.ret.predictions[1].flavor = model.all_flavors[1]

JsonReturned == call.op = "generate_forecast_json" /\ result.kind = "return"

RECURSIVE SumOfUnits(_)
SumOfUnits(predictions) ==
    IF predictions = <<>> THEN 0
    ELSE predictions[1].probability.m + SumOfUnits(Tail(predictions))

(* C15: in the document of generate_forecast_json, total_probability is    *)
(* the sum of the probabilities of the predictions the document returns    *)
(* (its top n_predictions entries), up to the rounding to 4 decimals; it   *)
(* is not the sum over the whole distribution.                             *)
C15_TotalOfReturnedPredictions ==
    (JsonReturned /\ call.n >= 1) =>
        LET predictions == result.ret.predictions
            gap == result.ret.total_probability.m - SumOfUnits(predictions)
        IN  2 * Abs(gap) <= Len(predictions) + 1

MultidayReturned ==
    call.op = "generate_multiday_forecast_json" /\ result.kind = "return"

DaysInMonth == <<31, 28, 31, 30, 31, 30, 31, 31, 30, 31, 30, 31>>

(* the calendar day after <<year, month, day>>, in a year that is not leap *)
DayAfter(date) ==
    IF date[3] < DaysInMonth[date[2]] THEN <<date[1], date[2], date[3] + 1>>
    ELSE IF date[2] < 12 THEN <<date[1], date[2] + 1, 1>>
    ELSE <<date[1] + 1, 1, 1>>

Tier(entry) ==
    IF "certainty_tier" \in DOMAIN entry THEN Some(entry.certainty_tier) ELSE None

LlmCalled == call.op = "generate_forecast_llm"

(* the narrative path fails at some step: the package cannot be imported,  *)
(* there is no credential, the client cannot be constructed, the request   *)
(* raises, or the response holds no text                                   *)
NarrativeFails(env) ==
    \/ ~env.importable
    \/ (env.api_key = None /\ env.environ_key = None)
    \/ env.construct = "raise"
    \/ env.request # "text"

(* C17: generate_forecast_llm never raises to its caller: whenever the     *)
(* narrative path fails at any step (package not importable, no            *)
(* credential, client construction error, request error, unusable          *)
(* response) it returns exactly format_forecast_template(context).         *)
C17_NarrativeFallsBackToTemplate ==
    LlmCalled =>
        /\ result.kind = "return"
        /\ NarrativeFails(call.env) =>
              result.ret = format_forecast_template(call.context)

-----------------------------------------------------------------------------
(* Claims about the accuracy report, stated over SpecEval.                 *)

ReportReturned == eval_out.op = "generate_accuracy_report"

(* the text of a column of a row, without its padding *)
Cell(line, from, to) == strip(SubSeq(line, from, to))

IsDigit(c) == \E d \in 1..10 : DigitChars[d] = c

DigitValue(c) == (CHOOSE d \in 1..10 : DigitChars[d] = c) - 1

RECURSIVE NumberOf(_)
NumberOf(digits) ==
    IF digits = <<>> THEN 0
    ELSE 10 * NumberOf(SubSeq(digits, 1, Len(digits) - 1)) + DigitValue(digits[Len(digits)])

(* text is a number with exactly `decimals` digits after its point: the    *)
(* number, in units of 10^-decimals, or None                               *)
Decimal(text, decimals) ==
    LET point == Len(text) - decimals
    IN  IF /\ point >= 2
           /\ text[point] = "."
           /\ \A i \in DOMAIN text : i # point => IsDigit(text[i])
        THEN Some(NumberOf(SubSeq(text, 1, point - 1) \o
                           SubSeq(text, point + 1, Len(text))))
        ELSE None

(* text shows the value x to `decimals` decimals, correctly rounded *)
Shows(text, x, decimals) ==
    /\ Decimal(text, decimals) # None
    /\ 2 * Abs(x[1] * Pow10(decimals) - Decimal(text, decimals)[1] * x[2]) <= x[2]

ShowsPercent(text, rate) ==
    /\ text # <<>> /\ text[Len(text)] = "%"
    /\ Shows(SubSeq(text, 1, Len(text) - 1), RMul(rate, R(100, 1)), 1)

(* C18: generate_accuracy_report emits two header lines and then exactly   *)
(* one row per store in ascending slug order; a store with n_samples = 0   *)
(* shows "--" in the Top-1, Top-5 and LogLoss columns and 0 in the N       *)
(* column; a store with n_samples > 0 shows both hit rates as percentages  *)
(* with one decimal and the log-loss with three decimals, "--" only in     *)
(* the LogLoss column when avg_log_loss is None.                           *)
C18_ReportRows ==
    ReportReturned =>
        LET lines == eval_out.ret
            results == eval_in.results
        IN  /\ Len(lines) = 2 + Cardinality(DOMAIN results)
            /\ Cell(lines[1], 1, 30) = <<"S", "t", "o", "r", "e">>
            /\ Len(lines[2]) = Len(lines[1])
            /\ \A i \in DOMAIN lines[2] : lines[2][i] = "-"
            /\ \A slug \in DOMAIN results :
                  LET row == lines[3 + Cardinality({o \in DOMAIN results : o < slug})]
                      metrics == results[slug]
                      top_1 == Cell(row, 32, 38)
                      top_5 == Cell(row, 40, 46)
                      log_loss == Cell(row, 48, 55)
                      count == Cell(row, 57, 61)
                  IN  /\ Len(row) = 61
                      /\ Cell(row, 1, 30) = SlugText(slug)
                      /\ \A c \in DOMAIN count : IsDigit(count[c])
                      /\ NumberOf(count) = metrics.n_samples
                      /\ IF metrics.n_samples = 0
                         THEN top_1 = Dashes /\ top_5 = Dashes /\ log_loss = Dashes
                         ELSE /\ ShowsPercent(top_1, metrics.top_1_hit_rate)
                              /\ ShowsPercent(top_5, metrics.top_5_hit_rate)
                              /\ IF metrics.avg_log_loss = None THEN log_loss = Dashes
                                 ELSE Shows(log_loss,
                                            R(metrics.avg_log_loss[1].m,
                                              Pow10(metrics.avg_log_loss[1].e)), 3)

(* two stores handed over: one without samples although it carries rates   *)
(* and a log-loss, one with samples and no log-loss                        *)
C18_Witness ==
    /\ ReportReturned
    /\ DOMAIN eval_in.results = Stores
    /\ \E a, b \in Stores :
          /\ a < b
          /\ eval_in.results[b].n_samples = 0
          /\ eval_in.results[b].avg_log_loss # None
          /\ eval_in.results[a].n_samples > 0
          /\ eval_in.results[a].avg_log_loss = None
          /\ eval_in.results[a].top_1_hit_rate = R(1, 3)
          /\ Cell(eval_out.ret[3], 32, 38) = <<"3", "3", ".", "3", "%">>
          /\ Cell(eval_out.ret[4], 48, 55) = Dashes

-----------------------------------------------------------------------------
(* Claims about the batch orchestrator, stated over SpecBatch.             *)

BatchCalled == call.op = "generate_all_forecasts"

(* the stores the call asks for *)
Requested ==
    IF call.stores = None THEN {e.store_slug : e \in data}
    ELSE {call.stores[1][i] : i \in DOMAIN call.stores[1]}

Observations(slug) == Cardinality({e \in data : e.store_slug = slug})

Warned(slug) ==
    \E i \in DOMAIN result.stderr :
        /\ result.stderr[i].line = "WARNING: skipping"
        /\ result.stderr[i].slug = slug

(* C19: generate_all_forecasts produces a forecast for exactly those       *)
(* requested stores that have at least 10 observations in the history;     *)
(* every other requested store, one absent from the history included, is   *)
(* skipped with a warning and without raising, the loop continues with the *)
(* remaining stores, and the returned n_stores equals the number of        *)
(* entries in forecasts.                                                   *)
C19_BatchSkipsSparseStores ==
    BatchCalled =>
        /\ result.kind = "return"
        /\ DOMAIN result.ret.forecasts = {slug \in Requested : Observations(slug) >= 10}
        /\ \A slug \in DOMAIN result.ret.forecasts :
              result.ret.forecasts[slug].store_slug = slug
        /\ \A slug \in Requested : Observations(slug) < 10 => Warned(slug)
        /\ \A slug \in DOMAIN result.ret.forecasts : ~Warned(slug)
        /\ result.ret.n_stores = Cardinality(DOMAIN result.ret.forecasts)

(* an absent store and a store of 9 rows are skipped first, and the store  *)
(* of exactly 10 rows that follows them gets its forecast                  *)
C19_Witness ==
    /\ BatchCalled
    /\ call.stores = Some(<<AbsentStore, SetMax(Stores), SetMin(Stores)>>)
    /\ Observations(SetMax(Stores)) = 9
    /\ Observations(SetMin(Stores)) = 10
    /\ result.kind = "return"
    /\ DOMAIN result.ret.forecasts = {SetMin(Stores)}
    /\ result.ret.n_stores = 1
    /\ Warned(AbsentStore) /\ Warned(SetMax(Stores))
    /\ call.n_days > 1
    /\ Len(result.ret.forecasts[SetMin(Stores)].days) = call.n_days

-----------------------------------------------------------------------------
(* Claims about the feedback queue, stated over SpecQueue.                 *)

Promoted(item) == "status" \in DOMAIN item /\ item.status = "promoted"

FileLines(file) == IF file = None THEN <<>> ELSE splitlines(file[1])

LineCount(line, file) ==
    LET lines == FileLines(file)
    IN  Cardinality({i \in DOMAIN lines : lines[i] = line})

(* the item a promote call with this id works on: the first one, or 0 *)
Target(items, item_id) ==
    IF \E i \in DOMAIN items : items[i].id = item_id
    THEN CHOOSE i \in DOMAIN items :
            items[i].id = item_id /\ \A j \in 1..(i - 1) : items[j].id # item_id
    ELSE 0

(* a step of promote_feedback_item on an item that is already promoted:    *)
(* inserted = False, file and queue as they were                           *)
LaterPromoteStep(idx) ==
    /\ result'.kind = "return"
    /\ result'.ret.inserted = FALSE
    /\ result'.ret.item = queue.items[idx]
    /\ todo_file' = todo_file
    /\ queue' = queue

(* a step of promote_feedback_item that returns on an item not promoted    *)
(* before: the line is in the file, added only if it was not there, and    *)
(* the item carries its promotion                                          *)
FirstPromoteStep(idx) ==
    LET item == queue'.items[idx]
    IN  /\ Promoted(item)
        /\ {"todo_line", "todo_section", "todo_added_at"} \subseteq DOMAIN item
        /\ item.todo_added_at = iso_utc(call'.now)
        /\ item.todo_section \in SectionHeadings
        /\ result'.ret.item = item
        /\ LineCount(item.todo_line, todo_file') >= 1
        /\ result'.ret.inserted = (LineCount(item.todo_line, todo_file) = 0)
        /\ Len(FileLines(todo_file')) =
              Len(FileLines(todo_file)) + (IF result'.ret.inserted THEN 1 ELSE 0)
        /\ \A j \in DOMAIN queue.items : j # idx => queue'.items[j] = queue.items[j]

PromoteStep ==
    LET idx == Target(queue.items, call'.item_id)
    IN  idx # 0 =>
            IF Promoted(queue.items[idx]) THEN LaterPromoteStep(idx)
            ELSE result'.kind = "return" => FirstPromoteStep(idx)

QueueStep ==
    /\ Len(queue'.items) >= Len(queue.items)
    /\ \A i \in DOMAIN queue.items :
          Promoted(queue.items[i]) => queue'.items[i] = queue.items[i]
    /\ call'.op = "promote_feedback_item" => PromoteStep
    /\ \A i \in DOMAIN queue'.items :
          Promoted(queue'.items[i]) => LineCount(queue'.items[i].todo_line, todo_file') <= 1

(* C21: promotion of a feedback item is one-way and idempotent:            *)
(* promote_feedback_item on an item that is not promoted puts the item's   *)
(* TODO line into the TODO file, unless the identical line is already      *)
(* there, and sets status = "promoted" with todo_line, todo_section and    *)
(* todo_added_at; any later promote for the same id returns inserted =     *)
(* False and changes neither the file nor the item; so after any sequence  *)
(* of add and promote calls the line occurs at most once in the file and   *)
(* no item goes from "promoted" back to "new".                             *)
C21_PromotionOneWayIdempotent == [][QueueStep]_vars

(* a second item is in the queue, and a promote at another time and with   *)
(* another title has just found the first one promoted: nothing inserted,  *)
(* the item and its one line in the file as they were                      *)
C21_Witness ==
    /\ call.op = "promote_feedback_item"
    /\ result.kind = "return"
    /\ result.ret.inserted = FALSE
    /\ Len(queue.items) = 2
    /\ Promoted(result.ret.item)
    /\ result.ret.item.todo_added_at # iso_utc(call.now)
    /\ result.ret.item.todo_line # todo_line_of(result.ret.item.text, call.item_id, None, None)
    /\ LineCount(result.ret.item.todo_line, todo_file) = 1
    /\ Len(FileLines(todo_file)) > 2

-----------------------------------------------------------------------------
(* Claims about the score components of the models, stated over Spec.      *)

ServedCount(title) == Cardinality({e \in Qualifying : e.title = title})

(* the recency component the model adds into the scores of the call *)
RecencyComponent ==
    IF model.kind = "FrequencyRecency"
    THEN reindex(overdue_ratio(Qualifying, call.date), model.all_flavors)
    ELSE recency_scores(model, Qualifying, call.date)

(* C22: in FrequencyRecencyModel and MarkovRecencyModel the overdue ratio  *)
(* is defined only for flavors served at least 2 times at the store before *)
(* the query date: a flavor served exactly once there contributes a        *)
(* recency component of 0, like a flavor never served there.               *)
C22_OverdueNeedsTwoServings ==
    (/\ Predicted /\ model.has_df /\ Qualifying # {}
     /\ model.kind \in {"FrequencyRecency", "MarkovRecency"}) =>
        \A i \in DOMAIN model.all_flavors :
            ServedCount(model.all_flavors[i]) <= 1 => RecencyComponent[i] = Zero

(* the label nlargest(1) puts first: the largest value, the first of equals *)
TopIndex ==
    CHOOSE i \in DOMAIN result.values :
        /\ \A j \in DOMAIN result.values : RLe(result.values[j], result.values[i])
        /\ \A j \in 1..(i - 1) : result.values[j] # result.values[i]

(* C23: in FrequencyRecencyModel, when the store has at least one event    *)
(* before the query date, every vocabulary flavor never served at that     *)
(* store before the date gets probability exactly 0, so the top prediction *)
(* is always a flavor previously served at that store.                     *)
C23_NeverServedGetsZero ==
    (/\ Predicted /\ model.kind = "FrequencyRecency" /\ DefaultWeights
     /\ model.has_df /\ Qualifying # {}) =>
        /\ result.kind = "series"
        /\ \A i \in DOMAIN result.index :
              ServedCount(result.index[i]) = 0 => result.values[i] = Zero
        /\ ServedCount(result.index[TopIndex]) > 0

(* the vocabulary holds a flavor served only at the other store, and one   *)
(* served at the queried store only on the query date itself               *)
C23_Witness ==
    /\ Predicted /\ model.kind = "FrequencyRecency" /\ model.has_df /\ Qualifying # {}
    /\ result.kind = "series"
    /\ \E i \in DOMAIN result.index :
          /\ ServedCount(result.index[i]) = 0
          /\ \E e \in data : e.title = result.index[i] /\ e.store_slug = call.store_slug
                             /\ e.flavor_date = call.date
          /\ result.values[i] = Zero
          /\ i < TopIndex

DowComponent ==
    reindex(_compute_dow_bonus(Qualifying, dayofweek(call.date)), model.all_flavors)

SeasonalComponent ==
    reindex(_compute_seasonal_bonus(Qualifying, month(call.date)), model.all_flavors)

(* 0.6 * freq + 0.2 * overdue_ratio, divided by its sum *)
FrequencyAndRecencyOnly ==
    LET fp == reindex(freq_probs(Qualifying), model.all_flavors)
        base == [i \in DOMAIN model.all_flavors |->
                    RAdd(RMul(R(6, 10), fp[i]), RMul(R(2, 10), RecencyComponent[i]))]
    IN  [i \in DOMAIN base |-> RDiv(base[i], RSum(base))]

(* C24: in FrequencyRecencyModel a flavor with fewer than 5 appearances at *)
(* the store before the query date gets dow_bonus exactly 0 and            *)
(* seasonal_bonus exactly 0; for a store where no flavor reaches 5         *)
(* appearances both bonuses are 0 for every flavor and the result is       *)
(* 0.6 * freq + 0.2 * overdue_ratio renormalised.                          *)
C24_BonusNeedsFiveAppearances ==
    (/\ Predicted /\ model.kind = "FrequencyRecency" /\ DefaultWeights
     /\ model.has_df /\ Qualifying # {}) =>
        /\ \A i \in DOMAIN model.all_flavors :
              ServedCount(model.all_flavors[i]) < 5 =>
                  DowComponent[i] = Zero /\ SeasonalComponent[i] = Zero
        /\ (\A i \in DOMAIN model.all_flavors : ServedCount(model.all_flavors[i]) < 5) =>
              /\ result.kind = "series"
              /\ result.values = FrequencyAndRecencyOnly

(* one flavor has its 5 appearances and both bonuses, another of the       *)
(* vocabulary has fewer and neither                                        *)
C24_Witness ==
    /\ Predicted /\ model.kind = "FrequencyRecency" /\ model.has_df
    /\ result.kind = "series"
    /\ \E i, j \in DOMAIN model.all_flavors :
          /\ ServedCount(model.all_flavors[i]) >= 5
          /\ DowComponent[i] # Zero /\ SeasonalComponent[i] # Zero
          /\ ServedCount(model.all_flavors[j]) < 5
          /\ DowComponent[j] = Zero /\ SeasonalComponent[j] = Zero

MonthBefore(m) == IF m = 1 THEN 12 ELSE m - 1

MonthAfter(m) == IF m = 12 THEN 1 ELSE m + 1

(* C25: _compute_seasonal_bonus counts appearances in a window of exactly  *)
(* three distinct months centred on the target month m: the month before   *)
(* m, m itself and the month after m, with wrap-around in both directions. *)
C25_SeasonalWindowThreeMonths ==
    (Predicted /\ model.kind = "FrequencyRecency" /\ model.has_df /\ Qualifying # {}) =>
        /\ Cardinality(months_in_window(month(call.date))) = 3
        /\ months_in_window(month(call.date)) =
              {MonthBefore(month(call.date)), month(call.date), MonthAfter(month(call.date))}

(* the DoW bonus of a flavor for a target weekday, 0 when the dict of     *)
(* _compute_dow_bonus has no entry for it                                  *)
DowBonusOf(title, target_dow) ==
    LET bonus == _compute_dow_bonus(Qualifying, target_dow)
    IN  IF title \in DOMAIN bonus THEN bonus[title] ELSE Zero

ServedOn(title, dow) ==
    \E e \in Qualifying : e.title = title /\ dayofweek(e.flavor_date) = dow

(* C27: for a flavor with at least 5 appearances at a store that was       *)
(* served on weekday w1 and never on weekday w2, the DoW bonus computed    *)
(* for target weekday w1 is strictly greater than the one computed for     *)
(* target weekday w2.                                                      *)
C27_DowBonusFavorsServedWeekday ==
    (Predicted /\ model.kind = "FrequencyRecency" /\ model.has_df) =>
        \A i \in DOMAIN model.all_flavors : \A w1, w2 \in 0..6 :
            (/\ ServedCount(model.all_flavors[i]) >= 5
             /\ ServedOn(model.all_flavors[i], w1)
             /\ ~ServedOn(model.all_flavors[i], w2)) =>
                RLt(DowBonusOf(model.all_flavors[i], w2),
                    DowBonusOf(model.all_flavors[i], w1))

(* a flavor with 5 appearances, the query on a weekday it was served on,   *)
(* and a weekday it was never served on                                    *)
C27_Witness ==
    /\ Predicted /\ model.kind = "FrequencyRecency" /\ model.has_df
    /\ \E i \in DOMAIN model.all_flavors : \E w2 \in 0..6 :
          /\ ServedCount(model.all_flavors[i]) >= 5
          /\ ServedOn(model.all_flavors[i], dayofweek(call.date))
          /\ ~ServedOn(model.all_flavors[i], w2)
          /\ DowBonusOf(model.all_flavors[i], dayofweek(call.date)) = One
          /\ DowBonusOf(model.all_flavors[i], w2) = Zero
          /\ DowComponent[i] = One

-----------------------------------------------------------------------------
(* Claims about models constructed with other weights, stated over         *)
(* SpecWeights.                                                            *)

(* the sum over the vocabulary of the weighted components of the call *)
CombinedScore ==
    IF model.kind = "FrequencyRecency"
    THEN LET fp == reindex(freq_probs(Qualifying), model.all_flavors)
         IN  RSum([i \in DOMAIN model.all_flavors |->
                RAdd(RAdd(RMul(model.weights[1], fp[i]),
                          RMul(model.weights[2], RecencyComponent[i])),
                     RAdd(RMul(model.weights[3], DowComponent[i]),
                          RMul(model.weights[4], SeasonalComponent[i])))])
    ELSE LET mp == markov_probs(model, Qualifying, call.date)
         IN  RSum([i \in DOMAIN model.all_flavors |->
                RAdd(RMul(model.weights[1], mp[i]),
                     RMul(model.weights[2], RecencyComponent[i]))])

(* C26: for FrequencyRecencyModel and MarkovRecencyModel constructed with  *)
(* any weights, whenever the combined weighted score sums to 0 over the    *)
(* vocabulary, predict_proba returns the uniform distribution over the     *)
(* vocabulary, never an all-zero or otherwise unnormalised vector.         *)
C26_ZeroScoreGivesUniform ==
    (/\ Predicted /\ model.has_df /\ Qualifying # {}
     /\ model.kind \in {"FrequencyRecency", "MarkovRecency"}
     /\ CombinedScore = Zero) =>
        /\ result.kind = "series"
        /\ result.values = Uniform(Len(model.all_flavors))

-----------------------------------------------------------------------------
(* Claims about the training matrix, stated over SpecTraining.             *)

Trained == call.op = "fit" /\ result.kind = "training"

StoreRows(store_slug) == {e \in data : e.store_slug = store_slug}

Earlier(e) == {x \in StoreRows(e.store_slug) : x.flavor_date < e.flavor_date}

(* the observations after their store's first 30 *)
AfterWarmup == {e \in data : Cardinality(Earlier(e)) >= 30}

(* the place of an observation in the matrix: stores in sorted order, a    *)
(* store's observations by date                                            *)
PlaceOf(e) ==
    1 + Cardinality({x \in AfterWarmup :
            \/ x.store_slug < e.store_slug
            \/ x.store_slug = e.store_slug /\ x.flavor_date < e.flavor_date})

DaysSince(e, title) ==
    IF \E x \in Earlier(e) : x.title = title
    THEN e.flavor_date - SetMax({x.flavor_date : x \in {y \in Earlier(e) : y.title = title}})
    ELSE 999

(* C28: XGBoostFlavorModel.fit builds, for each store, exactly one         *)
(* training row for each observation after that store's first 30 in        *)
(* chronological order, none for a store with 30 or fewer observations;    *)
(* each row is labelled with the flavor served on the row's date, and its  *)
(* days-since-last-served features are computed only from that store's     *)
(* events dated strictly before the row's date, with 999 for every flavor  *)
(* not yet served there.                                                   *)
C28_TrainingRowsAfterWarmup ==
    Trained =>
        /\ Len(result.X_rows) = Cardinality(AfterWarmup)
        /\ Len(result.y_labels) = Cardinality(AfterWarmup)
        /\ \A e \in AfterWarmup :
              /\ model.all_flavors[result.y_labels[PlaceOf(e)] + 1] = e.title
              /\ \A i \in DOMAIN model.all_flavors :
                    result.X_rows[PlaceOf(e)][i] = DaysSince(e, model.all_flavors[i])

(* one store has more than 31 observations and one exactly 30; a training  *)
(* row is labelled with a flavor not served before its date                *)
C28_Witness ==
    /\ Trained
    /\ Cardinality(StoreRows(SetMin(Stores))) = 30
    /\ Cardinality(StoreRows(SetMax(Stores))) > 31
    /\ Len(result.X_rows) = Cardinality(StoreRows(SetMax(Stores))) - 30
    /\ \E k \in DOMAIN result.X_rows :
          /\ result.X_rows[k][result.y_labels[k] + 1] = 999
          /\ \E j \in DOMAIN model.all_flavors : result.X_rows[k][j] = 1

-----------------------------------------------------------------------------
(* Claims about the template, stated over SpecTemplate.                    *)

TemplateReturned == call.op = "format_forecast_template" /\ result.kind = "return"

LinesOf(prose, kind) == SelectSeq(prose, LAMBDA l : l.line = kind)

(* C29: format_forecast_template is a function of its context: with        *)
(* k >= 1 predictions the headline names predictions[0], followed by       *)
(* " or " and predictions[1] iff k >= 2; an "Also possible" line appears   *)
(* iff k >= 3 and lists predictions[2..] in order; exactly one "Watch for" *)
(* line is emitted per overdue entry, in order; with no predictions it     *)
(* emits "Insufficient data for prediction." instead of a headline.        *)
C29_TemplateFollowsContext ==
    TemplateReturned =>
        LET preds == call.context.predictions
            overdue == call.context.overdue_flavors
            k == Len(preds)
            outlook == LinesOf(result.ret, "outlook")
            also == LinesOf(result.ret, "also_possible")
            watch == LinesOf(result.ret, "watch_for")
            insufficient == LinesOf(result.ret, "insufficient")
        IN  /\ result.ret = format_forecast_template(call.context)
            /\ k >= 1 =>
                  /\ Len(outlook) = 1 /\ insufficient = <<>>
                  /\ outlook[1].top = preds[1].flavor
                  /\ (outlook[1].runner_up # None) <=> (k >= 2)
                  /\ k >= 2 => outlook[1].runner_up = Some(preds[2].flavor)
            /\ (also # <<>>) <=> (k >= 3)
            /\ k >= 3 =>
                  /\ Len(also) = 1
                  /\ also[1].others = [i \in 1..(k - 2) |-> preds[i + 2].flavor]
            /\ Len(watch) = Len(overdue)
            /\ \A i \in DOMAIN overdue :
                  /\ watch[i].flavor = overdue[i].flavor
                  /\ watch[i].days_since = overdue[i].days_since
            /\ k = 0 => Len(insufficient) = 1 /\ outlook = <<>>

(* four predictions, the first two of one flavor, and two overdue entries *)
C29_Witness ==
    /\ TemplateReturned
    /\ Len(call.context.predictions) = 4
    /\ call.context.predictions[3].flavor # call.context.predictions[4].flavor
    /\ Len(call.context.overdue_flavors) = 2
    /\ call.context.overdue_flavors[1].flavor # call.context.overdue_flavors[2].flavor
    /\ Len(LinesOf(result.ret, "also_possible")) = 1
    /\ Len(LinesOf(result.ret, "watch_for")) = 2

-----------------------------------------------------------------------------
(* Claims about the prose of a single-day document, stated over SpecWriter. *)

Range(list) == {list[i] : i \in DOMAIN list}

(* the flavors the headline and the "Also possible" line name *)
NamedInProse(prose) ==
    UNION {({l.top} \cup (IF l.runner_up = None THEN {} ELSE {l.runner_up[1]})) :
              l \in Range(LinesOf(prose, "outlook"))}
    \cup UNION {Range(l.others) : l \in Range(LinesOf(prose, "also_possible"))}

(* C30: in every single-day document generate_forecast_json produces, for  *)
(* any n_predictions >= 1, the prose is consistent with the document's own *)
(* predictions list: the top pick the headline names is                    *)
(* predictions[0].flavor, and every flavor the headline or the "Also       *)
(* possible" line names also appears in the document's predictions.        *)
C30_ProseConsistentWithPredictions ==
    (JsonReturned /\ call.n >= 1) =>
        /\ \A l \in Range(LinesOf(result.ret.prose, "outlook")) :
              /\ result.ret.predictions # <<>>
              /\ l.top = result.ret.predictions[1].flavor
        /\ NamedInProse(result.ret.prose)
              \subseteq {p.flavor : p \in Range(result.ret.predictions)}

====
